---- MODULE Spec2Model ----
(***************************************************************************)
(* Model of the Rainar project-service                                     *)
(* (src/backend/services/project-service/index.js): the template catalog,  *)
(* the request handlers of the API router and the remote version-control   *)
(* host they call.  Strings that the code inspects character by character  *)
(* (request names and template ids) are sequences of one-character         *)
(* strings; a handler is cut into one action per await on real I/O.        *)
(***************************************************************************)
EXTENDS Integers, Sequences, FiniteSets, TLC

\* ------------------------------------------------------------------ bounds

\* Number of requests the clients send in one behaviour.
MaxRequests == 1

\* ----------------------------------------------------------------- strings

\* JavaScript null / undefined for values that are otherwise strings.
NULL == "null"

\* Index of the last character of p that is not a slash, 0 if there is none
\* (node's posix basename: the scan from the end that sets `end`).
BasenameEnd(p) ==
    LET nz == {i \in 1..Len(p) : p[i] # "/"}
    IN  IF nz = {} THEN 0 ELSE CHOOSE i \in nz : \A j \in nz : j <= i

\* Index of the first character of the last segment (the scan sets `start`
\* one past the first slash met after a non-slash character).
BasenameStart(p) ==
    LET e  == BasenameEnd(p)
        sl == {i \in 1..e : p[i] = "/"}
    IN  IF sl = {} THEN 1 ELSE 1 + CHOOSE i \in sl : \A j \in sl : j <= i

\* A plausible wrong sanitizer: the last segment, with the parent-directory
\* and current-directory segments mapped to the empty string.
BasenameStrict(p) ==
    LET s == IF BasenameEnd(p) = 0 THEN <<>>
             ELSE SubSeq(p, BasenameStart(p), BasenameEnd(p))
    IN  IF s \in {<<".">>, <<".", ".">>} THEN <<>> ELSE s

\* path.basename(p) on the POSIX build of node.
Basename(p) ==
    IF BasenameEnd(p) = 0 THEN <<>>
    ELSE SubSeq(p, BasenameStart(p), BasenameEnd(p))

\* ------------------------------------------------------------- file system

\* A file's text is a sequence of handlebars tokens: literal text, a
\* {{key}} mustache, or a malformed mustache the compiler rejects.
Lit(s) == [t |-> "lit", s |-> s]
Var(k) == [t |-> "var", k |-> k]
Bad    == [t |-> "bad"]

File(n, data)   == [name |-> n, dir |-> FALSE, data |-> data]
Dir(n, entries) == [name |-> n, dir |-> TRUE, entries |-> entries]

\* A symbolic link to a file: readdir reports an entry that is no
\* directory, and readFile of it returns the text of the file it points to.
Link(n, target, data) == [name |-> n, dir |-> FALSE, data |-> data, link |-> target]

\* A file outside the templates root and its text.
OutsideFile == <<"..", "..", ".env">>
OutsideText == << Lit(<<"k">>) >>

\* The text of a manifest file (it holds no mustache).
ManifestFile == File("rainar-template.json", << Lit(<<"{", "}">>) >>)

\* The templates root: the directories readdir lists, each one's
\* rainar-template.json (ok: it exists and parses; id: the id field it
\* declares, empty when it declares none) and the directory tree below it,
\* entries in readdir order.  The manifest is a regular file of the tree.
\* Folder s carries a manifest copied from t, id field included; u holds a
\* file that is nothing but the projectName placeholder, a symbolic link to
\* a file outside the root and a file with a malformed mustache; the
\* manifest of v declares an id that is a path; w has no manifest that
\* parses.
DiskInit ==
    [folders  |-> << <<"s">>, <<"t">>, <<"u">>, <<"v">>, <<"w">> >>,
     manifest |-> [f \in { <<"s">>, <<"t">>, <<"u">>, <<"v">>, <<"w">> } |->
                     IF f = <<"w">> THEN [ok |-> FALSE, id |-> <<>>]
                     ELSE IF f \in { <<"s">>, <<"t">> } THEN [ok |-> TRUE, id |-> <<"t">>]
                     ELSE IF f = <<"v">> THEN [ok |-> TRUE, id |-> <<".", ".", "/", "t">>]
                     ELSE [ok |-> TRUE, id |-> <<>>]],
     tree     |-> [f \in { <<"s">>, <<"t">>, <<"u">>, <<"v">>, <<"w">> } |->
                     IF f = <<"t">>
                     THEN << Dir("d", << File("g", << Lit(<<"n", "=">>),
                                                     Var("projectName"),
                                                     Var("projectDescription") >>) >>),
                             ManifestFile >>
                     ELSE IF f = <<"u">>
                     THEN << File("p", << Var("projectName") >>),
                             Link("l", OutsideFile, OutsideText),
                             File("h", << Bad >>), ManifestFile >>
                     ELSE IF f \in { <<"s">>, <<"v">> } THEN << ManifestFile >>
                     ELSE << >>]]

\* A templates root with no entry.
DiskEmpty ==
    [folders |-> << >>, manifest |-> << >>, tree |-> << >>]

\* The contents the templates root may have.
Disks == {DiskInit, DiskEmpty}

\* ---------------------------------------------------------------- renderer

\* Handlebars.escapeExpression, on the characters of the model's alphabet.
EscapeChar(c) == IF c = "&" THEN <<"&", "a", "m", "p", ";">> ELSE <<c>>

RECURSIVE Escape(_)
Escape(s) == IF s = <<>> THEN <<>> ELSE EscapeChar(Head(s)) \o Escape(Tail(s))

\* A rendering context is a set of [k, v] pairs with distinct keys.
Has(ctx, k)    == \E p \in ctx : p.k = k
Lookup(ctx, k) == (CHOOSE p \in ctx : p.k = k).v

\* { projectName: name, ...config }: the later spread wins on a shared key.
Context(name, config) ==
    {p \in {[k |-> "projectName", v |-> name]} : ~Has(config, p.k)} \cup config

\* handlebars.compile(data) throws on a malformed mustache (when the
\* compiled template is first run).
Compiles(data) == \A i \in 1..Len(data) : data[i].t # "bad"

\* template(ctx): literals verbatim, {{key}} replaced by the escaped value
\* of the key, by nothing when the context lacks the key.
RECURSIVE Render(_, _)
Render(data, ctx) ==
    IF data = <<>> THEN <<>>
    ELSE LET tok == Head(data)
             out == IF tok.t = "lit" THEN tok.s
                    ELSE IF Has(ctx, tok.k) THEN Escape(Lookup(ctx, tok.k))
                    ELSE <<>>
         IN  out \o Render(Tail(data), ctx)

\* ------------------------------------------------------------------- state

Slots == {"r1", "r2"}    \* request slots (requests in flight at once)
Main  == "main"          \* the caller of getTemplates outside any request
Ctx   == Slots \cup {Main}

VARIABLES
    templatesCache,  \* the module-level cache: unfilled (null) or an array
    disk,            \* the templates root on disk
    server,          \* "imported" | "starting" | "listening" | "exited"
    session,         \* req.session.accessToken of the client: NULL or a token
    gt,              \* per context: the getTemplates call it is inside
    pc,              \* per slot: where the request's handler is suspended
    rq,              \* per slot: the request (route, body, session token)
    loc,             \* per slot: the handler's local variables
    res,             \* per slot: the response
    calls,           \* per slot: the remote calls issued for the request
    fsops,           \* per slot: the file-system reads completed for it
    failed,          \* per slot: the step that threw and why, if one did
    remote,          \* the remote host's objects
    nreq,            \* requests sent so far
    live,            \* the slots clients use
    dash,            \* the dashboard's workflow-status poll
    hits             \* createProjectLimiter's count for the client's address

vars == <<templatesCache, disk, server, session, gt, pc, rq, loc, res,
          calls, fsops, failed, remote, nreq, live, dash, hits>>

\* What a handler's own code writes between two suspensions.
hdlVars == <<pc, loc, res, calls>>

\* What a step threw: the step and the kind of failure behind it.
Fail(step, kind) == [step |-> step, kind |-> kind]
NoFailure == Fail("", "")

\* No object id yet.
NoSha == [none |-> TRUE]

NoCache == [filled |-> FALSE, templates |-> <<>>]
NoCall  == [pc |-> "idle", folders |-> <<>>, templates |-> <<>>]
NoRepo  == [name |-> <<>>, owner |-> "", html_url |-> <<>>, default_branch |-> ""]

\* The :owner/:repo/:workflow_id parameters and body.workflow_id a client
\* of the secrets, dispatch and status routes sends when it names no
\* repository of its own.
ParamOwner    == "test-user"
ParamRepo     == "test-repo"
ParamWorkflow == "ci.yml"

NoRequest ==
    [route |-> "none", name |-> <<>>, template |-> <<>>, config |-> {},
     token |-> NULL, secrets |-> <<>>, owner |-> ParamOwner, repo |-> ParamRepo]

NoLocals ==
    [walk |-> <<>>, files |-> <<>>, repo |-> NoRepo, pending |-> {},
     blobs |-> <<>>, order |-> <<>>, tree |-> NoSha, commit |-> NoSha,
     todo |-> <<>>,
     runs |-> <<>>,
     key |-> [key |-> "", key_id |-> ""],
     archive |-> [open |-> FALSE, entries |-> <<>>, finalized |-> FALSE]]

NoResponse ==
    [status |-> 0, body |-> [none |-> TRUE], attachment |-> <<>>,
     headersSent |-> FALSE, ended |-> FALSE, closed |-> FALSE]

RemoteInit ==
    [repos |-> {}, blobs |-> {}, trees |-> {}, commits |-> {}, refs |-> {},
     secrets |-> {}, dispatches |-> {}]

\* The repository the authenticated user already owns on the remote host.
TakenRepo ==
    [name |-> <<"&">>, owner |-> "test-user",
     html_url |-> <<"github.com", "test-user", <<"&">> >>, default_branch |-> "main"]

\* The dashboard before handleSecretsSubmit has started a poll: no timer,
\* no message of the pipeline, no status request, and no run of the
\* workflow on the remote host.  step: the handler of the page that is
\* under way; owner, repo: creationStatus[templateId].owner and .repo;
\* secrets, dispatch: the HTTP status of the responses handleSecretsSubmit
\* has awaited (0: none yet).
NoMessage == [kind |-> "none", text |-> NULL]
NoDash ==
    [interval |-> FALSE, message |-> NoMessage, polls |-> << >>, runs |-> << >>,
     step |-> "none", owner |-> "", repo |-> << >>, secrets |-> 0, dispatch |-> 0]

\* createProjectLimiter: the requests it lets through in one window.
LimiterMax == 10

\* Module load: the cache is empty and the limiter has counted nothing
\* (the clients here stay below its maximum).  Run directly, the module calls
\* startServer, which is inside getTemplates (its readdir issued) before any
\* request can arrive; required by another module, it only exports app and
\* getTemplates.
Init ==
    /\ templatesCache = NoCache
    /\ disk \in Disks
    /\ server \in {"imported", "starting"}
    /\ session = NULL
    /\ gt = [c \in Ctx |->
               IF c = Main /\ server = "starting"
               THEN [NoCall EXCEPT !.pc = "readdir"] ELSE NoCall]
    /\ pc = [r \in Slots |-> "idle"]
    /\ rq = [r \in Slots |-> NoRequest]
    /\ loc = [r \in Slots |-> NoLocals]
    /\ res = [r \in Slots |-> NoResponse]
    /\ calls = [r \in Slots |-> <<>>]
    /\ fsops = [r \in Slots |-> <<>>]
    /\ failed = [r \in Slots |-> NoFailure]
    /\ remote = [RemoteInit EXCEPT !.repos = {TakenRepo}]
    /\ nreq = 0
    /\ live = {"r1"}
    /\ dash = NoDash
    /\ hits = 0

\* ------------------------------------------------------- handler results

\* The values a handler leaves in its variables when it next suspends or ends.
Out(p, l, rs, cs) == [pc |-> p, loc |-> l, res |-> rs, calls |-> cs]

Apply(r, o) ==
    /\ pc' = [pc EXCEPT ![r] = o.pc]
    /\ loc' = [loc EXCEPT ![r] = o.loc]
    /\ res' = [res EXCEPT ![r] = o.res]
    /\ calls' = [calls EXCEPT ![r] = o.calls]

\* res.status(code).json(body)
Json(rs, code, body) ==
    [rs EXCEPT !.status = code, !.body = body, !.headersSent = TRUE,
               !.ended = TRUE]

ErrorBody(msg) == [error |-> msg]

\* ----------------------------------------------------------------- inputs

\* Request names: missing, plain, with a character the renderer escapes,
\* the parent-directory segment, and paths with separators.
NameInputs ==
    { <<>>, <<"a">>, <<"&">>, <<".", ".">>, <<".", ".", "/", "a">>, <<"a", "/">> }

\* Request template ids: missing, two catalog entries, a directory with no
\* valid manifest, and a path that ends in a catalog entry (the id a
\* manifest may declare).
TemplateInputs ==
    { <<>>, <<"t">>, <<"u">>, <<"w">>, <<".", ".", "/", "t">> }

ConfigInputs ==
    { {}, {[k |-> "projectDescription", v |-> <<"d">>]},
      {[k |-> "projectName", v |-> <<"z">>]} }

SecretInputs ==
    { <<>>, << [name |-> "A", value |-> "x"] >>,
      << [name |-> "A", value |-> "x"], [name |-> "B", value |-> "y"] >> }

GuardedRoutes == {"repositories", "secrets", "dispatch", "status"}

Requests ==
    {[NoRequest EXCEPT !.route = "templates"]}
    \cup {[NoRequest EXCEPT !.route = rt, !.name = n, !.template = t, !.config = c] :
            rt \in {"projects", "repositories"}, n \in NameInputs,
            t \in TemplateInputs, c \in ConfigInputs}
    \cup {[NoRequest EXCEPT !.route = "secrets", !.secrets = ss] : ss \in SecretInputs}
    \cup {[NoRequest EXCEPT !.route = rt] : rt \in {"dispatch", "status"}}

\* ---------------------------------------------------------- getTemplates

\* templates.push({ id: folder, ...manifest }): a manifest that declares an
\* id overrides the folder name.
TemplateOf(folder, manifest) ==
    [id |-> IF manifest.id # <<>> THEN manifest.id ELSE folder, folder |-> folder]

\* A loop that lists a folder whatever became of its manifest (not the
\* code's).
PushedAlways(templates, folder, m) == Append(templates, TemplateOf(folder, m))

\* One round of the loop over the folders: the manifest parsed and the
\* template is pushed, or reading or parsing it threw and the folder is
\* skipped with a warning.
Pushed(templates, folder, m) ==
    IF m.ok THEN Append(templates, TemplateOf(folder, m)) ELSE templates

\* A cache test that takes an empty catalog for no catalog (not the code's).
CachedNonEmpty(cache) == cache.filled /\ cache.templates # << >>

\* if (templatesCache): an array, empty or not, is truthy.
Cached(cache) == cache.filled

\* templates.find(t => t.id === template) found something.
Find(templates, id) == \E i \in 1..Len(templates) : templates[i].id = id

\* A check of the required fields that lets a missing template through
\* (not the code's).
RequiredNameOnly(q) ==
    IF q.name = <<>> THEN "Project name is required" ELSE ""

\* The checks made before the catalog is consulted.
Required(q) ==
    IF q.name = <<>> THEN "Project name is required"
    ELSE IF q.template = <<>> THEN "Template is required"
    ELSE ""

\* sanitizedName !== name
NameRejected(name) == Basename(name) # name

\* A handler that only looks the template up and sanitizes nothing (not the
\* code's).
RejectionLookupOnly(q, templates) ==
    IF ~Find(templates, q.template) THEN "Invalid template specified" ELSE ""

\* The checks made once the catalog is at hand, in the code's order.
Rejection(q, templates) ==
    IF ~Find(templates, q.template) THEN "Invalid template specified"
    ELSE IF NameRejected(q.name)
    THEN "Invalid project name. Path traversal characters are not allowed."
    ELSE IF Basename(q.template) # q.template
    THEN "Invalid template name. Path traversal characters are not allowed."
    ELSE ""

\* ------------------------------------------------------------- tree walk

\* A pending visit of processDirectory: a directory to list or a file to read.
Item(prefix, e) ==
    IF e.dir
    THEN [dir |-> TRUE, path |-> Append(prefix, e.name), exists |-> TRUE,
          entries |-> e.entries, data |-> <<>>]
    ELSE [dir |-> FALSE, path |-> Append(prefix, e.name), exists |-> TRUE,
          entries |-> <<>>, data |-> e.data]

\* processDirectory(templatePath, ''): path.join(templatesDir, template) is
\* listed; it exists when the templates root has a directory of that name.
WalkRoot(d, template) ==
    << [dir |-> TRUE, path |-> <<>>, exists |-> template \in DOMAIN d.tree,
        entries |-> IF template \in DOMAIN d.tree THEN d.tree[template] ELSE <<>>,
        data |-> <<>>] >>

\* A walk that does not descend into subdirectories (not the code's).
ChildrenFilesOnly(item) ==
    SelectSeq([i \in 1..Len(item.entries) |-> Item(item.path, item.entries[i])],
              LAMBDA x : ~x.dir)

\* The visits that replace a listed directory, in readdir order.
Children(item) == [i \in 1..Len(item.entries) |-> Item(item.path, item.entries[i])]

\* ------------------------------------------------------ POST /repositories

\* The steps of the repository-creation protocol, in order.
Steps == <<"CreateRepo", "RenderTree", "CreateBlobs", "CreateTree",
           "CreateCommit", "UpdateRef">>

\* Buffer.from(content).toString('base64'): the text under its encoding.
Base64(content) == [base64 |-> content]

\* The remote host's object ids are content addresses.
BlobSha(content)  == [blob |-> content]
TreeSha(entries)  == [tree |-> entries]
CommitSha(c)      == [commit |-> c]

CreateRepoCall(q) ==
    [api |-> "repos.createForAuthenticatedUser", auth |-> q.token,
     name |-> Basename(q.name), private |-> TRUE]

CreateBlobCall(q, l, file) ==
    [api |-> "git.createBlob", auth |-> q.token, owner |-> l.repo.owner,
     repo |-> Basename(q.name), content |-> Base64(file.content),
     encoding |-> "base64"]

CreateTreeCall(q, l) ==
    [api |-> "git.createTree", auth |-> q.token, owner |-> l.repo.owner,
     repo |-> Basename(q.name), tree |-> l.blobs]

\* A first commit chained onto a parent (not what the code does).
CreateCommitCallChained(q, l) ==
    [api |-> "git.createCommit", auth |-> q.token, owner |-> l.repo.owner,
     repo |-> Basename(q.name), message |-> "Initial commit from Rainar",
     tree |-> l.tree, parents |-> << l.tree >>]

CreateCommitCall(q, l) ==
    [api |-> "git.createCommit", auth |-> q.token, owner |-> l.repo.owner,
     repo |-> Basename(q.name), message |-> "Initial commit from Rainar",
     tree |-> l.tree, parents |-> << >>]

\* An update of the branch called main, whatever the repository's default
\* branch is (not the code's).
UpdateRefCallMain(q, l) ==
    [api |-> "git.updateRef", auth |-> q.token, owner |-> l.repo.owner,
     repo |-> Basename(q.name), ref |-> <<"heads", "main">>,
     sha |-> l.commit]

UpdateRefCall(q, l) ==
    [api |-> "git.updateRef", auth |-> q.token, owner |-> l.repo.owner,
     repo |-> Basename(q.name), ref |-> <<"heads", l.repo.default_branch>>,
     sha |-> l.commit]

\* A catch block that names the failed step to the caller (not the code's).
CatchRepositoryTagged(l, rs, cs, err) ==
    Out("done", l,
        Json(rs, 500, [error |-> "Failed to create repository", step |-> err.step]), cs)

\* A catch block that maps the remote host's refusals to their own statuses
\* (not the code's).
CatchRepositoryClassified(l, rs, cs, err) ==
    Out("done", l,
        Json(rs, IF err.kind = "conflict" THEN 409
                 ELSE IF err.kind = "unauthorized" THEN 401 ELSE 500,
             ErrorBody("Failed to create repository")), cs)

\* A handler whose calls swallow their own errors and go on to the last
\* step (not the code's).
CatchRepositorySwallow(l, rs, cs, err) ==
    Out("updateRef", l, rs,
        Append(cs, [api |-> "git.updateRef", auth |-> cs[1].auth,
                    owner |-> l.repo.owner, repo |-> cs[1].name,
                    ref |-> <<"heads", l.repo.default_branch>>, sha |-> l.commit]))

\* A catch block that undoes the repository it created (not the code's).
CatchRepositoryRollback(l, rs, cs, err) ==
    Out("done", l, Json(rs, 500, ErrorBody("Failed to create repository")),
        IF err.step # "CreateRepo"
        THEN Append(cs, [api |-> "repos.delete", auth |-> cs[1].auth,
                         owner |-> l.repo.owner, repo |-> cs[1].name])
        ELSE cs)

\* catch (error): log it and answer 500 with a fixed message, whichever
\* call threw; err is what was thrown.
CatchRepository(l, rs, cs, err) ==
    Out("done", l, Json(rs, 500, ErrorBody("Failed to create repository")), cs)

\* new Octokit(...) and the repository-create call; the handler suspends.
StartRepository(q) ==
    Out("createRepo", NoLocals, NoResponse, << CreateRepoCall(q) >>)

\* The repository exists: processDirectory(templatePath, '') issues its
\* first readdir.
StartRenderTree(q, l, rs, cs, d) ==
    Out("walk", [l EXCEPT !.walk = WalkRoot(d, q.template)], rs, cs)

IssueTree(q, l, rs, cs) ==
    Out("createTree", l, rs, Append(cs, CreateTreeCall(q, l)))

\* A fan-out that creates blobs one file at a time, the first only (not the
\* code's).
IssueBlobsFirstOnly(q, l, rs, cs) ==
    IF l.files = <<>> THEN IssueTree(q, l, rs, cs)
    ELSE Out("blobs",
             [l EXCEPT !.pending = {1}, !.blobs = [i \in 1..1 |-> NoSha]],
             rs, Append(cs, CreateBlobCall(q, l, l.files[1])))

\* Promise.all(Object.entries(files).map(async ...)): every createBlob call
\* is issued before the handler suspends; with no file the join is
\* immediate and the tree call follows.
IssueBlobs(q, l, rs, cs) ==
    IF l.files = <<>> THEN IssueTree(q, l, rs, cs)
    ELSE Out("blobs",
             [l EXCEPT !.pending = 1..Len(l.files),
                       !.blobs = [i \in 1..Len(l.files) |-> NoSha]],
             rs,
             cs \o [i \in 1..Len(l.files) |-> CreateBlobCall(q, l, l.files[i])])

\* A join that goes on as soon as one blob is there (not the code's).
BlobJoinedAny(l) == TRUE

\* Promise.all resolves when no createBlob call is pending any more.
BlobJoined(l) == l.pending = {}

IssueCommit(q, l, rs, cs) ==
    Out("createCommit", l, rs, Append(cs, CreateCommitCall(q, l)))

\* A handler that answers 201 as soon as the ref update is issued (not the
\* code's).
IssueRefAnswering(q, l, rs, cs) ==
    Out("updateRef", l,
        Json(rs, 201, [url |-> l.repo.html_url, owner |-> l.repo.owner,
                       repo |-> l.repo.name]),
        Append(cs, UpdateRefCall(q, l)))

IssueRef(q, l, rs, cs) ==
    Out("updateRef", l, rs, Append(cs, UpdateRefCall(q, l)))

\* res.status(201).json({ url, owner, repo })
Created(l, rs, cs) ==
    Out("done", l,
        Json(rs, 201, [url |-> l.repo.html_url, owner |-> l.repo.owner,
                       repo |-> l.repo.name]), cs)

\* ---------------------------------------------------------- POST /projects

\* res.attachment(`${sanitizedName}.zip`), the archiver piped into the
\* response, and the first readdir of processDirectory.
StartArchive(q, d) ==
    Out("walk",
        [NoLocals EXCEPT !.walk = WalkRoot(d, q.template), !.archive.open = TRUE],
        [NoResponse EXCEPT !.attachment = Basename(q.name) \o <<".", "z", "i", "p">>],
        << >>)

\* await archive.finalize(): the archive is closed and the response ends.
Finalize(l, rs, cs) ==
    Out("done", [l EXCEPT !.archive.finalized = TRUE],
        [rs EXCEPT !.status = 200, !.headersSent = TRUE, !.ended = TRUE], cs)

\* A catch that closes the archive as if the walk had ended (not the
\* code's).
CatchArchiveFinalizing(l, rs, cs) ==
    Out("done", [l EXCEPT !.archive.finalized = TRUE],
        [rs EXCEPT !.status = 200, !.headersSent = TRUE, !.ended = TRUE], cs)

\* catch (error): a 500 only while no header went out; afterwards the
\* response is left as it is, with the status the first bytes carried.
CatchArchive(l, rs, cs) ==
    Out("done", l,
        IF rs.headersSent THEN rs
        ELSE Json(rs, 500, ErrorBody("Failed to create project")), cs)

\* ------------------------------------------- after `await getTemplates()`

\* The handler's code from the catalog to its next suspension.
AfterCatalog(q, templates, d) ==
    IF q.route = "templates"
    THEN Out("done", NoLocals, Json(NoResponse, 200, [templates |-> templates]), << >>)
    ELSE IF Rejection(q, templates) # ""
    THEN Out("done", NoLocals,
             Json(NoResponse, 400, ErrorBody(Rejection(q, templates))), << >>)
    ELSE IF q.route = "projects" THEN StartArchive(q, d)
    ELSE StartRepository(q)

\* getTemplates threw inside a handler: the await is outside every try, so
\* the handler ends without answering.
Unanswered == Out("hung", NoLocals, NoResponse, << >>)

\* ------------------------------------- secrets, dispatch and status routes

\* sodium.crypto_box_seal(value, key), base64-encoded.
Seal(value, key) == [sealedFor |-> key, of |-> value]

PublicKeyCall(q) ==
    [api |-> "actions.getRepoPublicKey", auth |-> q.token,
     owner |-> q.owner, repo |-> q.repo]

\* An upsert sealed with a key other than the one fetched (not the code's).
UpsertCallOtherKey(q, l, secret) ==
    [api |-> "actions.createOrUpdateRepoSecret", auth |-> q.token,
     owner |-> q.owner, repo |-> q.repo, secret_name |-> secret.name,
     encrypted_value |-> Base64(Seal(secret.value, "")),
     key_id |-> l.key.key_id]

UpsertCall(q, l, secret) ==
    [api |-> "actions.createOrUpdateRepoSecret", auth |-> q.token,
     owner |-> q.owner, repo |-> q.repo, secret_name |-> secret.name,
     encrypted_value |-> Base64(Seal(secret.value, l.key.key)),
     key_id |-> l.key.key_id]

DispatchCall(q) ==
    [api |-> "actions.createWorkflowDispatch", auth |-> q.token,
     owner |-> q.owner, repo |-> q.repo, workflow_id |-> ParamWorkflow,
     ref |-> "main"]

ListRunsCall(q) ==
    [api |-> "actions.listWorkflowRuns", auth |-> q.token,
     owner |-> q.owner, repo |-> q.repo, workflow_id |-> ParamWorkflow]

NoContent(l, rs, cs) ==
    Out("done", l, [rs EXCEPT !.status = 204, !.headersSent = TRUE, !.ended = TRUE], cs)

\* A loop that issues the upserts of all remaining secrets without
\* awaiting any (not the code's).
NextSecretAllAtOnce(q, l, rs, cs) ==
    IF l.todo = << >> THEN NoContent(l, rs, cs)
    ELSE Out("upsert", [l EXCEPT !.todo = << >>], rs,
             cs \o [i \in 1..Len(l.todo) |-> UpsertCall(q, l, l.todo[i])])

\* A loop that stops after its first upsert (not the code's).
NextSecretFirstOnly(q, l, rs, cs) ==
    IF l.todo = << >> \/ Len(cs) > 1 THEN NoContent(l, rs, cs)
    ELSE Out("upsert", [l EXCEPT !.todo = Tail(l.todo)], rs,
             Append(cs, UpsertCall(q, l, Head(l.todo))))

\* The for loop over secrets, up to its next await (or the 204 after it).
NextSecret(q, l, rs, cs) ==
    IF l.todo = << >> THEN NoContent(l, rs, cs)
    ELSE Out("upsert", [l EXCEPT !.todo = Tail(l.todo)], rs,
             Append(cs, UpsertCall(q, l, Head(l.todo))))

\* The run lists the remote host may answer with; created_at is a day number.
Run(st, concl, at) == [status |-> st, conclusion |-> concl, created_at |-> at]

RunLists ==
    { << >>,
      << Run("queued", NULL, 3) >>,
      << Run("in_progress", NULL, 3), Run("completed", "success", 2) >>,
      << Run("completed", "failure", 2), Run("in_progress", NULL, 3) >> }

\* A status answer that reports the run listed last (not the code's).
StatusAnswerLast(rs, runs) ==
    IF runs = << >> THEN Json(rs, 200, [status |-> "not_found"])
    ELSE Json(rs, 200, [status |-> runs[Len(runs)].status,
                        conclusion |-> runs[Len(runs)].conclusion])

\* A status answer that reports an empty list as a failure (not the code's).
StatusAnswerStrict(rs, runs) ==
    IF runs = << >> THEN Json(rs, 404, ErrorBody("No workflow runs"))
    ELSE Json(rs, 200, [status |-> runs[1].status, conclusion |-> runs[1].conclusion])

\* The answer of the status route to a run list: not_found for the empty
\* list, else the first run listed.
StatusAnswer(rs, runs) ==
    IF runs = << >> THEN Json(rs, 200, [status |-> "not_found"])
    ELSE Json(rs, 200, [status |-> runs[1].status, conclusion |-> runs[1].conclusion])

\* ---------------------------------------------------------------- actions

\* An isAuthenticated that lets every request through (not the code's).
AuthenticatedAlways(q) == TRUE

\* isAuthenticated: req.session.accessToken is truthy.
Authenticated(q) == q.token # NULL

\* A limiter placed ahead of isAuthenticated (not the code's).
CountedBeforeAuth(q) == q.route \in {"projects", "repositories"}

\* The requests that reach createProjectLimiter: those of POST /projects,
\* and those of POST /repositories that isAuthenticated has passed on.
Counted(q) ==
    q.route = "projects" \/ (q.route = "repositories" /\ Authenticated(q))

\* The limiter's count after a request (past one above the maximum the
\* count makes no difference and is not kept).
Hit(q, n) == IF Counted(q) /\ n <= LimiterMax THEN n + 1 ELSE n

\* The limiter's own answer to a request beyond the maximum.
TooMany ==
    Out("done", NoLocals,
        Json(NoResponse, 429,
             ErrorBody("Too many projects created from this IP, please try again later.")),
        << >>)

\* The handler and the middleware behind the limiter, up to the first
\* await.  The pc "catalog" stands for the call of getTemplates, resolved
\* in Receive.
Entry(q) ==
    IF q.route \in GuardedRoutes /\ ~Authenticated(q)
    THEN Out("done", NoLocals, Json(NoResponse, 401, ErrorBody("Unauthorized")), << >>)
    ELSE IF q.route \in {"projects", "repositories"} /\ Required(q) # ""
    THEN Out("done", NoLocals, Json(NoResponse, 400, ErrorBody(Required(q))), << >>)
    ELSE IF q.route \in {"templates", "projects", "repositories"}
    THEN Out("catalog", NoLocals, NoResponse, << >>)
    ELSE IF q.route = "secrets"
    THEN Out("publicKey", [NoLocals EXCEPT !.todo = q.secrets], NoResponse,
             << PublicKeyCall(q) >>)
    ELSE IF q.route = "dispatch"
    THEN Out("dispatch", NoLocals, NoResponse, << DispatchCall(q) >>)
    ELSE Out("listRuns", NoLocals, NoResponse, << ListRunsCall(q) >>)

\* The OAuth callback (or the test login) stores an access token in the
\* client's session.  A request carries the session it arrived with, so a
\* login or logout while one is in flight changes nothing for it: they are
\* taken between requests.
Login ==
    /\ session = NULL
    /\ \A r \in Slots : pc[r] = "idle"
    /\ session' = "test-token"
    /\ UNCHANGED <<dash, hits, templatesCache, disk, server, gt, pc, rq, loc, res, calls,
                   fsops, failed, remote, nreq, live>>

\* POST /auth/logout destroys the session.
Logout ==
    /\ session # NULL
    /\ \A r \in Slots : pc[r] = "idle"
    /\ session' = NULL
    /\ UNCHANGED <<dash, hits, templatesCache, disk, server, gt, pc, rq, loc, res, calls,
                   fsops, failed, remote, nreq, live>>

\* A client sends a request: the middleware chain and the handler run to
\* the handler's first suspension.
Receive(r) ==
    /\ r \in live
    /\ server \in {"imported", "listening"}
    /\ pc[r] = "idle"
    /\ nreq < MaxRequests
    /\ \E q0 \in Requests :
         LET q == [q0 EXCEPT !.token = session]
             o == IF Counted(q) /\ Hit(q, hits) > LimiterMax THEN TooMany
                  ELSE Entry(q)
         IN  /\ rq' = [rq EXCEPT ![r] = q]
             /\ hits' = Hit(q, hits)
             /\ IF o.pc # "catalog"
                THEN Apply(r, o) /\ UNCHANGED gt
                ELSE IF Cached(templatesCache)
                THEN Apply(r, AfterCatalog(q, templatesCache.templates, disk))
                     /\ UNCHANGED gt
                ELSE Apply(r, o)
                     /\ gt' = [gt EXCEPT ![r] = [NoCall EXCEPT !.pc = "readdir"]]
    /\ nreq' = nreq + 1
    /\ UNCHANGED <<dash, templatesCache, disk, server, session, fsops, failed, remote, live>>

\* The client has its answer (or gave up on a request never answered) and
\* no call of the request is in flight: the slot is free again.
Complete(r) ==
    /\ pc[r] \in {"done", "hung"}
    /\ loc[r].pending = {}
    /\ pc' = [pc EXCEPT ![r] = "idle"]
    /\ rq' = [rq EXCEPT ![r] = NoRequest]
    /\ loc' = [loc EXCEPT ![r] = NoLocals]
    /\ res' = [res EXCEPT ![r] = NoResponse]
    /\ calls' = [calls EXCEPT ![r] = << >>]
    /\ fsops' = [fsops EXCEPT ![r] = << >>]
    /\ failed' = [failed EXCEPT ![r] = NoFailure]
    /\ UNCHANGED <<dash, hits, templatesCache, disk, server, session, gt, remote, nreq, live>>

\* A deployment installs or removes templates, at a time when nothing is
\* reading the templates root.
DiskChange ==
    /\ \A c \in Ctx : gt[c].pc = "idle"
    /\ \A r \in Slots : pc[r] = "idle"
    /\ disk' \in Disks \ {disk}
    /\ UNCHANGED <<dash, hits, templatesCache, server, session, gt, pc, rq, loc, res, calls,
                   fsops, failed, remote, nreq, live>>

\* The module that required this one calls the exported getTemplates.
CallGetTemplates ==
    /\ server = "imported"
    /\ gt[Main].pc = "idle"
    /\ ~Cached(templatesCache)
    /\ gt' = [gt EXCEPT ![Main] = [NoCall EXCEPT !.pc = "readdir"]]
    /\ UNCHANGED <<dash, hits, templatesCache, disk, server, session, pc, rq, loc, res,
                   calls, fsops, failed, remote, nreq, live>>

\* A startServer that listens whatever became of the load (not the code's).
ReturnToListening(c, ok, templates) ==
    IF c = Main
    THEN /\ server' = IF server # "starting" THEN server ELSE "listening"
         /\ UNCHANGED <<hdlVars, failed>>
    ELSE /\ Apply(c, IF ok THEN AfterCatalog(rq[c], templates, disk) ELSE Unanswered)
         /\ failed' = [failed EXCEPT ![c] = IF ok THEN @ ELSE Fail("GetTemplates", "failure")]
         /\ UNCHANGED server

\* getTemplates returns to (ok) or throws into (~ok) its caller: startServer
\* listens or exits; a handler goes on from its await.
ReturnTo(c, ok, templates) ==
    IF c = Main
    THEN /\ server' = IF server # "starting" THEN server
                      ELSE IF ok THEN "listening" ELSE "exited"
         /\ UNCHANGED <<hdlVars, failed>>
    ELSE /\ Apply(c, IF ok THEN AfterCatalog(rq[c], templates, disk) ELSE Unanswered)
         /\ failed' = [failed EXCEPT ![c] = IF ok THEN @ ELSE Fail("GetTemplates", "failure")]
         /\ UNCHANGED server

\* A file-system read made for a request, by getTemplates or by the tree walk.
Read(by, op, path, ok) == [by |-> by, op |-> op, path |-> path, ok |-> ok]

LogRead(c, op, path, ok) ==
    fsops' = IF c = Main THEN fsops
             ELSE [fsops EXCEPT ![c] = Append(@, Read("getTemplates", op, path, ok))]

\* A catch that caches an empty catalog before it rethrows (not the
\* code's).
RethrownCachingEmpty(cache) == [filled |-> TRUE, templates |-> << >>]

\* catch (error): the error is logged and rethrown; the cache is not
\* touched.
Rethrown(cache) == cache

\* fs.readdir(templatesDir) completes.
GtReaddir(c) ==
    /\ gt[c].pc = "readdir"
    /\ \E ok \in BOOLEAN :
         /\ LogRead(c, "readdir", <<"templates">>, ok)
         /\ IF ok /\ disk.folders # << >>
            THEN /\ gt' = [gt EXCEPT ![c] = [pc |-> "manifest",
                                             folders |-> disk.folders,
                                             templates |-> << >>]]
                 /\ UNCHANGED <<templatesCache, server, hdlVars, failed>>
            ELSE /\ gt' = [gt EXCEPT ![c] = NoCall]
                 /\ templatesCache' = IF ok THEN [filled |-> TRUE, templates |-> << >>]
                                      ELSE Rethrown(templatesCache)
                 /\ ReturnTo(c, ok, << >>)
    /\ UNCHANGED <<dash, hits, disk, session, rq, remote, nreq, live>>

\* fs.readFile of the next folder's manifest completes: the folder is
\* pushed or skipped; after the last one the cache is assigned.
GtManifest(c) ==
    /\ gt[c].pc = "manifest"
    /\ LET folder == Head(gt[c].folders)
           m      == disk.manifest[folder]
           ts     == Pushed(gt[c].templates, folder, m)
           rest   == Tail(gt[c].folders)
       IN  /\ LogRead(c, "readFile", <<"templates", folder, "rainar-template.json">>, m.ok)
           /\ IF rest # << >>
              THEN /\ gt' = [gt EXCEPT ![c] = [@ EXCEPT !.folders = rest, !.templates = ts]]
                   /\ UNCHANGED <<templatesCache, server, hdlVars, failed>>
              ELSE /\ gt' = [gt EXCEPT ![c] = NoCall]
                   /\ templatesCache' = [filled |-> TRUE, templates |-> ts]
                   /\ ReturnTo(c, TRUE, ts)
    /\ UNCHANGED <<dash, hits, disk, session, rq, remote, nreq, live>>

\* What the remote host may answer to a call: done, the name is taken,
\* the token is no longer accepted, or any other failure.
RepoOutcomes(name) ==
    IF \E x \in remote.repos : x.name = name
    THEN {"conflict", "unauthorized", "failure"}
    ELSE {"ok", "unauthorized", "failure"}

DefaultBranches == {"main", "master"}

\* The repository-create call completes.
RepoCreated(r) ==
    /\ pc[r] = "createRepo"
    /\ \E out \in RepoOutcomes(calls[r][1].name), branch \in DefaultBranches :
         LET repo == [name |-> calls[r][1].name, owner |-> ParamOwner,
                      html_url |-> <<"github.com", ParamOwner, calls[r][1].name>>,
                      default_branch |-> branch]
         IN  IF out = "ok"
             THEN /\ remote' = [remote EXCEPT !.repos = @ \cup {repo}]
                  /\ Apply(r, StartRenderTree(rq[r], [loc[r] EXCEPT !.repo = repo],
                                              res[r], calls[r], disk))
                  /\ UNCHANGED failed
             ELSE /\ branch = "main"
                  /\ Apply(r, CatchRepository(loc[r], res[r], calls[r],
                                              Fail("CreateRepo", out)))
                  /\ failed' = [failed EXCEPT ![r] = Fail("CreateRepo", out)]
                  /\ UNCHANGED remote
    /\ UNCHANGED <<dash, hits, templatesCache, disk, server, session, gt, rq, fsops, nreq, live>>

\* A rendering that takes the name and config from a variable all requests
\* share, set by the request in the first slot (not the code's).
RenderedShared(q, item) ==
    [path |-> item.path,
     content |-> Render(item.data, Context(rq["r1"].name, rq["r1"].config))]

\* A staging that keeps only the file rendered last (not the code's).
StagedLastOnly(files, e) == << e >>

\* files[newArchivePath] = result: files is keyed by path, in insertion
\* order; a path staged again keeps its place and takes the new content.
Staged(files, e) ==
    IF \E i \in 1..Len(files) : files[i].path = e.path
    THEN [i \in 1..Len(files) |-> IF files[i].path = e.path THEN e ELSE files[i]]
    ELSE Append(files, e)

\* The handler's code after a file was read: compile, render and hand the
\* result to the route's sink; a malformed template throws.
Rendered(q, item) ==
    [path |-> item.path, content |-> Render(item.data, Context(q.name, q.config))]

\* A handler that takes its walk for over as soon as the archive has an
\* entry (not the code's).
WalkEndedAtFirstEntry(l) == l.walk = << >> \/ l.archive.entries # << >>

\* `await processDirectory(templatePath, '')` resolves: no visit is left.
WalkEnded(l) == l.walk = << >>

\* The handler after its tree walk is over.
AfterWalk(q, l, rs, cs) ==
    IF q.route = "projects" THEN Finalize(l, rs, cs) ELSE IssueBlobs(q, l, rs, cs)

\* The catch block of the route.
Catch(q, l, rs, cs, err) ==
    IF q.route = "projects" THEN CatchArchive(l, rs, cs)
    ELSE CatchRepository(l, rs, cs, err)

\* One read of processDirectory completes: a readdir (the directory's
\* entries take its place in the visit order) or a readFile (the file is
\* rendered and appended to the archive or staged in `files`).  sent: the
\* archiver has by now written bytes of an appended entry to the response.
WalkStep(r) ==
    /\ pc[r] = "walk"
    /\ LET q    == rq[r]
           l    == loc[r]
           item == Head(l.walk)
           rest == Tail(l.walk)
       IN  \E ok \in {b \in BOOLEAN : item.exists \/ ~b}, sent \in BOOLEAN :
             LET good == ok /\ (item.dir \/ Compiles(item.data))
                 l2 == IF item.dir
                       THEN [l EXCEPT !.walk = Children(item) \o rest]
                       ELSE IF q.route = "projects"
                       THEN [l EXCEPT !.walk = rest,
                                      !.archive.entries = Append(@, Rendered(q, item))]
                       ELSE [l EXCEPT !.walk = rest,
                                      !.files = Staged(@, Rendered(q, item))]
                 rs2 == IF q.route = "projects" /\ sent /\ l2.archive.entries # << >>
                        THEN [res[r] EXCEPT !.status = 200, !.headersSent = TRUE]
                        ELSE res[r]
             IN  /\ (sent => q.route = "projects" /\ good /\ l2.archive.entries # << >>
                              /\ ~res[r].headersSent /\ ~res[r].closed)
                 /\ fsops' = [fsops EXCEPT ![r] =
                                Append(@, Read("processDirectory",
                                               IF item.dir THEN "readdir" ELSE "readFile",
                                               <<"templates", q.template>> \o item.path,
                                               ok))]
                 /\ IF ~good
                    THEN /\ Apply(r, Catch(q, l, res[r], calls[r], Fail("RenderTree", "failure")))
                         /\ failed' = [failed EXCEPT ![r] = Fail("RenderTree", "failure")]
                    ELSE /\ Apply(r, IF WalkEnded(l2)
                                     THEN AfterWalk(q, l2, rs2, calls[r])
                                     ELSE Out("walk", l2, rs2, calls[r]))
                         /\ UNCHANGED failed
    /\ UNCHANGED <<dash, hits, templatesCache, disk, server, session, gt, rq, remote, nreq, live>>

\* A callback that takes the path from a variable the callbacks share,
\* advanced as they resolve (not the code's).
BlobEntryByArrival(l, i, sha) ==
    [path |-> l.files[Len(l.files) - Cardinality(l.pending) + 1].path,
     sha |-> sha, mode |-> "100644", type |-> "blob"]

\* return { path, sha: blob.sha, mode: '100644', type: 'blob' }: the path
\* is the one the callback was created with.
BlobEntry(l, i, sha) ==
    [path |-> l.files[i].path, sha |-> sha, mode |-> "100644", type |-> "blob"]

\* The client of an archive download goes away while the handler walks
\* the template: the response is closed.  No listener of the handler hears
\* of it; the archiver keeps taking entries into its queue.
Disconnect(r) ==
    /\ pc[r] = "walk"
    /\ rq[r].route = "projects"
    /\ ~res[r].closed
    /\ res' = [res EXCEPT ![r].closed = TRUE]
    /\ UNCHANGED <<dash, hits, templatesCache, disk, server, session, gt, pc, rq, loc, calls,
                   fsops, failed, remote, nreq, live>>

\* One createBlob call completes while the handler waits in Promise.all;
\* its entry takes the place of its call in the array Promise.all returns
\* (order: the calls in the order they resolved).
BlobDone(r, i) ==
    /\ pc[r] = "blobs"
    /\ i \in loc[r].pending
    /\ \E ok \in BOOLEAN :
         LET sha  == BlobSha(calls[r][1 + i].content)
             l2   == [loc[r] EXCEPT !.pending = @ \ {i},
                                    !.order = Append(@, i),
                                    !.blobs[i] = BlobEntry(loc[r], i, sha)]
         IN  IF ok
             THEN /\ remote' = [remote EXCEPT !.blobs = @ \cup
                                  {[repo |-> loc[r].repo.name, sha |-> sha]}]
                  /\ Apply(r, IF BlobJoined(l2)
                              THEN IssueTree(rq[r], l2, res[r], calls[r])
                              ELSE Out("blobs", l2, res[r], calls[r]))
                  /\ UNCHANGED failed
             ELSE /\ Apply(r, CatchRepository([loc[r] EXCEPT !.pending = @ \ {i}],
                                              res[r], calls[r],
                                              Fail("CreateBlobs", "failure")))
                  /\ failed' = [failed EXCEPT ![r] = Fail("CreateBlobs", "failure")]
                  /\ UNCHANGED remote
    /\ UNCHANGED <<dash, hits, templatesCache, disk, server, session, gt, rq, fsops, nreq, live>>

\* A createBlob call still in flight when Promise.all rejected completes:
\* nobody awaits it, only the remote host changes.
BlobLate(r, i) ==
    /\ pc[r] = "done"
    /\ i \in loc[r].pending
    /\ \E ok \in BOOLEAN :
         remote' = IF ok
                   THEN [remote EXCEPT !.blobs = @ \cup
                           {[repo |-> loc[r].repo.name,
                             sha |-> BlobSha(calls[r][1 + i].content)]}]
                   ELSE remote
    /\ loc' = [loc EXCEPT ![r].pending = @ \ {i}]
    /\ UNCHANGED <<dash, hits, templatesCache, disk, server, session, gt, pc, rq, res, calls,
                   fsops, failed, nreq, live>>

Last(seq) == seq[Len(seq)]

\* The tree-create call completes.
TreeDone(r) ==
    /\ pc[r] = "createTree"
    /\ \E ok \in BOOLEAN :
         LET sha == TreeSha(Last(calls[r]).tree)
         IN  IF ok
             THEN /\ remote' = [remote EXCEPT !.trees = @ \cup
                                  {[repo |-> loc[r].repo.name, sha |-> sha]}]
                  /\ Apply(r, IssueCommit(rq[r], [loc[r] EXCEPT !.tree = sha],
                                          res[r], calls[r]))
                  /\ UNCHANGED failed
             ELSE /\ Apply(r, CatchRepository(loc[r], res[r], calls[r],
                                              Fail("CreateTree", "failure")))
                  /\ failed' = [failed EXCEPT ![r] = Fail("CreateTree", "failure")]
                  /\ UNCHANGED remote
    /\ UNCHANGED <<dash, hits, templatesCache, disk, server, session, gt, rq, fsops, nreq, live>>

\* The commit-create call completes.
CommitDone(r) ==
    /\ pc[r] = "createCommit"
    /\ \E ok \in BOOLEAN :
         LET c   == Last(calls[r])
             sha == CommitSha([tree |-> c.tree, parents |-> c.parents,
                               message |-> c.message])
         IN  IF ok
             THEN /\ remote' = [remote EXCEPT !.commits = @ \cup
                                  {[repo |-> loc[r].repo.name, sha |-> sha]}]
                  /\ Apply(r, IssueRef(rq[r], [loc[r] EXCEPT !.commit = sha],
                                       res[r], calls[r]))
                  /\ UNCHANGED failed
             ELSE /\ Apply(r, CatchRepository(loc[r], res[r], calls[r],
                                              Fail("CreateCommit", "failure")))
                  /\ failed' = [failed EXCEPT ![r] = Fail("CreateCommit", "failure")]
                  /\ UNCHANGED remote
    /\ UNCHANGED <<dash, hits, templatesCache, disk, server, session, gt, rq, fsops, nreq, live>>

\* The ref-update call completes.
RefDone(r) ==
    /\ pc[r] = "updateRef"
    /\ \E ok \in BOOLEAN :
         LET c == Last(calls[r])
         IN  IF ok
             THEN /\ remote' = [remote EXCEPT !.refs =
                                  {x \in @ : ~(x.repo = c.repo /\ x.ref = c.ref)}
                                  \cup {[repo |-> c.repo, ref |-> c.ref, sha |-> c.sha]}]
                  /\ Apply(r, Created(loc[r], res[r], calls[r]))
                  /\ UNCHANGED failed
             ELSE /\ Apply(r, CatchRepository(loc[r], res[r], calls[r],
                                              Fail("UpdateRef", "failure")))
                  /\ failed' = [failed EXCEPT ![r] = Fail("UpdateRef", "failure")]
                  /\ UNCHANGED remote
    /\ UNCHANGED <<dash, hits, templatesCache, disk, server, session, gt, rq, fsops, nreq, live>>

Failure(l, rs, cs, msg) == Out("done", l, Json(rs, 500, ErrorBody(msg)), cs)

\* getRepoPublicKey completes.
KeyFetched(r) ==
    /\ pc[r] = "publicKey"
    /\ \E ok \in BOOLEAN :
         IF ok
         THEN /\ Apply(r, NextSecret(rq[r],
                            [loc[r] EXCEPT !.key = [key |-> "repo-key", key_id |-> "test-key-id"]],
                            res[r], calls[r]))
              /\ UNCHANGED failed
         ELSE /\ Apply(r, Failure(loc[r], res[r], calls[r], "Failed to create secrets"))
              /\ failed' = [failed EXCEPT ![r] = Fail("GetPublicKey", "failure")]
    /\ UNCHANGED <<dash, hits, templatesCache, disk, server, session, gt, rq, fsops, remote,
                   nreq, live>>

\* A createOrUpdateRepoSecret call completes.
SecretUpserted(r) ==
    /\ pc[r] = "upsert"
    /\ \E ok \in BOOLEAN :
         LET c == Last(calls[r])
         IN  IF ok
             THEN /\ remote' = [remote EXCEPT !.secrets =
                                  {x \in @ : x.name # c.secret_name}
                                  \cup {[name |-> c.secret_name,
                                         value |-> c.encrypted_value]}]
                  /\ Apply(r, NextSecret(rq[r], loc[r], res[r], calls[r]))
                  /\ UNCHANGED failed
             ELSE /\ Apply(r, Failure(loc[r], res[r], calls[r], "Failed to create secrets"))
                  /\ failed' = [failed EXCEPT ![r] = Fail("UpsertSecret", "failure")]
                  /\ UNCHANGED remote
    /\ UNCHANGED <<dash, hits, templatesCache, disk, server, session, gt, rq, fsops, nreq, live>>

\* createWorkflowDispatch completes.
Dispatched(r) ==
    /\ pc[r] = "dispatch"
    /\ \E ok \in BOOLEAN :
         LET c == Last(calls[r])
         IN  IF ok
             THEN /\ remote' = [remote EXCEPT !.dispatches = @ \cup
                                  {[owner |-> c.owner, repo |-> c.repo,
                                    workflow_id |-> c.workflow_id, ref |-> c.ref]}]
                  /\ Apply(r, NoContent(loc[r], res[r], calls[r]))
                  /\ UNCHANGED failed
             ELSE /\ Apply(r, Failure(loc[r], res[r], calls[r], "Failed to dispatch workflow"))
                  /\ failed' = [failed EXCEPT ![r] = Fail("Dispatch", "failure")]
                  /\ UNCHANGED remote
    /\ UNCHANGED <<dash, hits, templatesCache, disk, server, session, gt, rq, fsops, nreq, live>>

\* listWorkflowRuns completes with a run list, or fails.
RunsListed(r) ==
    /\ pc[r] = "listRuns"
    /\ \/ \E runs \in RunLists :
            /\ Apply(r, Out("done", [loc[r] EXCEPT !.runs = runs],
                            StatusAnswer(res[r], runs), calls[r]))
            /\ UNCHANGED failed
       \/ /\ Apply(r, Failure(loc[r], res[r], calls[r], "Failed to get workflow status"))
          /\ failed' = [failed EXCEPT ![r] = Fail("ListRuns", "failure")]
    /\ UNCHANGED <<dash, hits, templatesCache, disk, server, session, gt, rq, fsops, remote,
                   nreq, live>>

\* ------------------------------------ the dashboard's workflow-status poll

MaxPolls == 3    \* status requests the dashboard's timer issues

\* creationStatus[templateId].message while the pipeline runs.
PollingMessage      == [kind |-> "polling", text |-> NULL]
StatusMessage(s)    == [kind |-> "status", text |-> s]
CompletedMessage(c) == [kind |-> "completed", text |-> c]

\* A status request of the poll: sent, answered by the service (res is its
\* response), lost on the way, or arrived at the callback.
Poll(stage, rs) == [stage |-> stage, res |-> rs]

\* The run lists the workflow's run can move to on the remote host.
Advance(runs) ==
    IF runs = << >> THEN { << Run("queued", NULL, 3) >> }
    ELSE IF runs[1].status = "queued" THEN { << Run("in_progress", NULL, 3) >> }
    ELSE IF runs[1].status = "in_progress"
    THEN { << Run("completed", c, 3) >> : c \in {"success", "failure"} }
    ELSE { }

\* handleSecretsSubmit has dispatched the workflow and set its timer.
DashStart ==
    [NoDash EXCEPT !.interval = TRUE, !.message = PollingMessage,
                   !.step = "polling", !.owner = ParamOwner, !.repo = <<"a">>,
                   !.secrets = 204, !.dispatch = 204]

\* res.ok
Ok(rs) == rs.status \in 200..299

\* The callback once its fetch has resolved: a response that is not ok is
\* dropped; a completed run clears the timer and shows the conclusion; any
\* other status is shown as it is.
Updated(d, rs) ==
    IF ~Ok(rs) THEN d
    ELSE IF rs.body.status = "completed"
    THEN [d EXCEPT !.interval = FALSE,
                   !.message = CompletedMessage(rs.body.conclusion)]
    ELSE [d EXCEPT !.message = StatusMessage(rs.body.status)]

serviceVars == <<templatesCache, disk, server, session, gt, pc, rq, loc, res,
                 calls, fsops, failed, remote, nreq, live, hits>>

\* The timer fires (every second while it is set) and the callback sends a
\* status request, whether or not earlier ones have come back.
Tick ==
    /\ dash.interval
    /\ Len(dash.polls) < MaxPolls
    /\ dash' = [dash EXCEPT !.polls = Append(@, Poll("sent", NoResponse))]
    /\ UNCHANGED serviceVars

\* The service answers a status request from the run list of the moment,
\* or with its 500 when the remote host fails.
Served(i) ==
    /\ dash.polls[i].stage = "sent"
    /\ \E ok \in BOOLEAN :
         dash' = [dash EXCEPT !.polls[i] =
                    Poll("answered",
                         IF ok THEN StatusAnswer(NoResponse, dash.runs)
                         ELSE Json(NoResponse, 500,
                                   ErrorBody("Failed to get workflow status")))]
    /\ UNCHANGED serviceVars

\* The fetch of a status request rejects: the callback's catch does nothing.
Lost(i) ==
    /\ dash.polls[i].stage = "sent"
    /\ dash' = [dash EXCEPT !.polls[i].stage = "lost"]
    /\ UNCHANGED serviceVars

\* A response reaches the callback that sent the request; responses arrive
\* in any order.
Arrived(i) ==
    /\ dash.polls[i].stage = "answered"
    /\ dash' = [Updated(dash, dash.polls[i].res) EXCEPT !.polls[i].stage = "arrived"]
    /\ UNCHANGED serviceVars

\* The workflow's run moves on.
RunAdvances ==
    /\ \E runs \in Advance(dash.runs) : dash' = [dash EXCEPT !.runs = runs]
    /\ UNCHANGED serviceVars

\* The page with a repository created, secrets submitted and the workflow
\* dispatched; the service is at rest.
InitDashboard ==
    /\ templatesCache = NoCache
    /\ disk = DiskInit
    /\ server = "imported"
    /\ session = "test-token"
    /\ gt = [c \in Ctx |-> NoCall]
    /\ pc = [r \in Slots |-> "idle"]
    /\ rq = [r \in Slots |-> NoRequest]
    /\ loc = [r \in Slots |-> NoLocals]
    /\ res = [r \in Slots |-> NoResponse]
    /\ calls = [r \in Slots |-> <<>>]
    /\ fsops = [r \in Slots |-> <<>>]
    /\ failed = [r \in Slots |-> NoFailure]
    /\ remote = RemoteInit
    /\ nreq = 0
    /\ live = {"r1"}
    /\ dash = DashStart
    /\ hits = 0

NextDashboard ==
    \/ Tick
    \/ \E i \in 1..Len(dash.polls) : Served(i)
    \/ \E i \in 1..Len(dash.polls) : Lost(i)
    \/ \E i \in 1..Len(dash.polls) : Arrived(i)
    \/ RunAdvances

SpecDashboard == InitDashboard /\ [][NextDashboard]_vars

\* ------------------------------- two repository requests in flight at once

\* The catalog a load of a templates root assigns.
CatalogOf(d) ==
    LET f[i \in 0..Len(d.folders)] ==
          IF i = 0 THEN << >>
          ELSE Pushed(f[i - 1], d.folders[i], d.manifest[d.folders[i]])
    IN  f[Len(d.folders)]

\* Bodies of POST /repositories that pass every check of the handler.
PairRequests ==
    {[NoRequest EXCEPT !.route = "repositories", !.token = "test-token",
                       !.name = b.name, !.template = b.template, !.config = b.config] :
       b \in {[name |-> <<"a">>, template |-> <<"t">>,
               config |-> {[k |-> "projectDescription", v |-> <<"d">>]}],
              [name |-> <<"&">>, template |-> <<"t">>,
               config |-> {[k |-> "projectName", v |-> <<"z">>]}],
              [name |-> <<"a">>, template |-> <<"u">>, config |-> {}]}}

\* A listening server that has taken in two POST /repositories requests of
\* a logged-in client, one after the other; each handler is suspended in
\* its repository-create call.
InitPair ==
    /\ templatesCache = [filled |-> TRUE, templates |-> CatalogOf(DiskInit)]
    /\ disk = DiskInit
    /\ server = "listening"
    /\ session = "test-token"
    /\ gt = [c \in Ctx |-> NoCall]
    /\ rq \in [Slots -> PairRequests]
    /\ pc = [r \in Slots |-> AfterCatalog(rq[r], templatesCache.templates, disk).pc]
    /\ loc = [r \in Slots |-> AfterCatalog(rq[r], templatesCache.templates, disk).loc]
    /\ res = [r \in Slots |-> AfterCatalog(rq[r], templatesCache.templates, disk).res]
    /\ calls = [r \in Slots |-> AfterCatalog(rq[r], templatesCache.templates, disk).calls]
    /\ fsops = [r \in Slots |-> <<>>]
    /\ failed = [r \in Slots |-> NoFailure]
    /\ remote = RemoteInit
    /\ nreq = Cardinality(Slots)
    /\ live = Slots
    /\ dash = NoDash
    /\ hits = Cardinality(Slots)

\* The suspension points of the two handlers, resumed in any order.
NextPair ==
    \/ \E r \in Slots : RepoCreated(r)
    \/ \E r \in Slots : WalkStep(r)
    \/ \E r \in Slots : \E i \in loc[r].pending : BlobDone(r, i)
    \/ \E r \in Slots : \E i \in loc[r].pending : BlobLate(r, i)
    \/ \E r \in Slots : TreeDone(r)
    \/ \E r \in Slots : CommitDone(r)
    \/ \E r \in Slots : RefDone(r)

SpecPair == InitPair /\ [][NextPair]_vars

\* ----------------- the dashboard from "Create Project" to the running poll

\* The slot the page's requests are served in.
Page == "r1"

\* creationStatus[templateId].message outside the poll.
CreatedMessage   == [kind |-> "created", text |-> NULL]
SubmittedMessage == [kind |-> "submitted", text |-> NULL]
FailedMessage    == [kind |-> "failed", text |-> NULL]

\* fetch(...): the service takes the page's request in; the session is
\* logged in and the limiter is below its maximum.
Sent(q) ==
    /\ rq' = [rq EXCEPT ![Page] = q]
    /\ Apply(Page, Entry(q))

\* The page has taken the response of its request and sends no other.
Taken ==
    /\ rq' = [rq EXCEPT ![Page] = NoRequest]
    /\ Apply(Page, Out("idle", NoLocals, NoResponse, << >>))

pageFixed == <<templatesCache, disk, server, session, gt, remote, nreq, live, hits>>

\* handleCreateRepository after `await fetch('/api/repositories')`: a
\* response that is ok leaves url, owner and repo in creationStatus, any
\* other the error message.
RepositoryAnswered ==
    /\ dash.step = "creating"
    /\ pc[Page] = "done" /\ loc[Page].pending = {}
    /\ dash' = IF Ok(res[Page])
               THEN [dash EXCEPT !.step = "created", !.message = CreatedMessage,
                                 !.owner = res[Page].body.owner,
                                 !.repo = res[Page].body.repo]
               ELSE [dash EXCEPT !.step = "failed", !.message = FailedMessage]
    /\ Taken
    /\ fsops' = [fsops EXCEPT ![Page] = << >>]
    /\ failed' = [failed EXCEPT ![Page] = NoFailure]
    /\ UNCHANGED pageFixed

\* handleSecretsSubmit up to its first await: with owner and repo in
\* creationStatus, the secrets typed into the form are posted.
SecretsSubmit ==
    /\ dash.step = "created"
    /\ dash.owner # "" /\ dash.repo # << >>
    /\ pc[Page] = "idle"
    /\ \E ss \in SecretInputs :
         Sent([NoRequest EXCEPT !.route = "secrets", !.token = session,
                                !.secrets = ss, !.owner = dash.owner,
                                !.repo = dash.repo])
    /\ dash' = [dash EXCEPT !.step = "secrets"]
    /\ UNCHANGED <<fsops, failed>>
    /\ UNCHANGED pageFixed

\* `await fetch(.../secrets)` resolves, with whatever status: the message
\* says the secrets are submitted and the dispatch request is sent.
SecretsAnswered ==
    /\ dash.step = "secrets"
    /\ pc[Page] = "done"
    /\ dash' = [dash EXCEPT !.step = "dispatch", !.message = SubmittedMessage,
                            !.secrets = res[Page].status]
    /\ Sent([NoRequest EXCEPT !.route = "dispatch", !.token = session,
                              !.owner = dash.owner, !.repo = dash.repo])
    /\ fsops' = [fsops EXCEPT ![Page] = << >>]
    /\ failed' = [failed EXCEPT ![Page] = NoFailure]
    /\ UNCHANGED pageFixed

\* `await fetch(.../dispatch)` resolves, with whatever status: the message
\* says the pipeline is triggered and the timer of the poll is set.
DispatchAnswered ==
    /\ dash.step = "dispatch"
    /\ pc[Page] = "done"
    /\ dash' = [dash EXCEPT !.step = "polling", !.message = PollingMessage,
                            !.dispatch = res[Page].status, !.interval = TRUE]
    /\ Taken
    /\ fsops' = [fsops EXCEPT ![Page] = << >>]
    /\ failed' = [failed EXCEPT ![Page] = NoFailure]
    /\ UNCHANGED pageFixed

\* One of the two fetches rejects (the response never arrives): the catch
\* of handleSecretsSubmit shows its error and nothing more is sent.
FetchRejected ==
    /\ dash.step \in {"secrets", "dispatch"}
    /\ pc[Page] = "done"
    /\ dash' = [dash EXCEPT !.step = "failed", !.message = FailedMessage]
    /\ Taken
    /\ fsops' = [fsops EXCEPT ![Page] = << >>]
    /\ failed' = [failed EXCEPT ![Page] = NoFailure]
    /\ UNCHANGED pageFixed

\* A logged-in page whose handleCreateRepository has posted its request to
\* a listening service with the catalog loaded; the handler is suspended
\* in its repository-create call.
InitPipeline ==
    /\ templatesCache = [filled |-> TRUE, templates |-> CatalogOf(DiskInit)]
    /\ disk = DiskInit
    /\ server = "listening"
    /\ session = "test-token"
    /\ gt = [c \in Ctx |-> NoCall]
    /\ rq = [r \in Slots |->
               IF r = Page
               THEN [NoRequest EXCEPT !.route = "repositories", !.token = session,
                                      !.name = <<"a">>, !.template = <<"t">>,
                                      !.config = {[k |-> "projectDescription",
                                                   v |-> <<"d">>]}]
               ELSE NoRequest]
    /\ pc = [r \in Slots |->
               IF r = Page THEN AfterCatalog(rq[r], templatesCache.templates, disk).pc
               ELSE "idle"]
    /\ loc = [r \in Slots |-> NoLocals]
    /\ res = [r \in Slots |-> NoResponse]
    /\ calls = [r \in Slots |->
                  IF r = Page THEN AfterCatalog(rq[r], templatesCache.templates, disk).calls
                  ELSE << >>]
    /\ fsops = [r \in Slots |-> << >>]
    /\ failed = [r \in Slots |-> NoFailure]
    /\ remote = RemoteInit
    /\ nreq = 1
    /\ live = {Page}
    /\ dash = [NoDash EXCEPT !.step = "creating"]
    /\ hits = 1

NextPipeline ==
    \/ RepoCreated(Page)
    \/ WalkStep(Page)
    \/ \E i \in loc[Page].pending : BlobDone(Page, i)
    \/ \E i \in loc[Page].pending : BlobLate(Page, i)
    \/ TreeDone(Page)
    \/ CommitDone(Page)
    \/ RefDone(Page)
    \/ RepositoryAnswered
    \/ SecretsSubmit
    \/ KeyFetched(Page)
    \/ SecretUpserted(Page)
    \/ SecretsAnswered
    \/ Dispatched(Page)
    \/ DispatchAnswered
    \/ FetchRejected

SpecPipeline == InitPipeline /\ [][NextPipeline]_vars

Next ==
    \/ Login
    \/ Logout
    \/ DiskChange
    \/ CallGetTemplates
    \/ \E c \in Ctx : GtReaddir(c)
    \/ \E c \in Ctx : GtManifest(c)
    \/ \E r \in Slots : Receive(r)
    \/ \E r \in Slots : Complete(r)
    \/ \E r \in Slots : RepoCreated(r)
    \/ \E r \in Slots : WalkStep(r)
    \/ \E r \in Slots : Disconnect(r)
    \/ \E r \in Slots : \E i \in loc[r].pending : BlobDone(r, i)
    \/ \E r \in Slots : \E i \in loc[r].pending : BlobLate(r, i)
    \/ \E r \in Slots : TreeDone(r)
    \/ \E r \in Slots : CommitDone(r)
    \/ \E r \in Slots : RefDone(r)
    \/ \E r \in Slots : KeyFetched(r)
    \/ \E r \in Slots : SecretUpserted(r)
    \/ \E r \in Slots : Dispatched(r)
    \/ \E r \in Slots : RunsListed(r)

Spec == Init /\ [][Next]_vars

\* ---------------------------------------------------------------- claims

Range(seq) == {seq[i] : i \in 1..Len(seq)}

\* The files below a directory (every entry that is no directory), depth
\* first in readdir order.
RECURSIVE TreeFiles(_, _)
TreeFiles(entries, prefix) ==
    IF entries = << >> THEN << >>
    ELSE LET e == Head(entries)
         IN  (IF e.dir THEN TreeFiles(e.entries, Append(prefix, e.name))
              ELSE << [path |-> Append(prefix, e.name), data |-> e.data] >>)
             \o TreeFiles(Tail(entries), prefix)

\* The protocol step a remote call belongs to (7: none of them).
ApiStep(api) ==
    CASE api = "repos.createForAuthenticatedUser" -> 1
      [] api = "git.createBlob"   -> 3
      [] api = "git.createTree"   -> 4
      [] api = "git.createCommit" -> 5
      [] api = "git.updateRef"    -> 6
      [] OTHER -> 7

StepNumber(step) == CHOOSE i \in 1..Len(Steps) : Steps[i] = step

Apis(r)      == {calls[r][i].api : i \in 1..Len(calls[r])}
BlobCalls(r) == {i \in 1..Len(calls[r]) : calls[r][i].api = "git.createBlob"}

RepoFailed(r) == rq[r].route = "repositories" /\ failed[r].step \in Range(Steps)

GenericFailure == ErrorBody("Failed to create repository")

\* C1: a POST /repositories answered 201 has issued the repository-create
\* call, then one blob-create call per file of the template tree (carrying
\* that file's rendering), then one tree-create call, one commit-create call
\* with no parent and one ref-update call, in this order and nothing else,
\* and its body carries the URL of the repository created.
C1_RepositoryCallSequence ==
    \A r \in Slots :
      (rq[r].route = "repositories" /\ res[r].status = 201) =>
        LET files == TreeFiles(disk.tree[rq[r].template], << >>)
            n     == Len(files)
            cs    == calls[r]
        IN  /\ Len(cs) = n + 4
            /\ cs[1].api = "repos.createForAuthenticatedUser"
            /\ \A i \in 1..n :
                 /\ cs[1 + i].api = "git.createBlob"
                 /\ cs[1 + i].content =
                      Base64(Render(files[i].data, Context(rq[r].name, rq[r].config)))
            /\ cs[n + 2].api = "git.createTree"
            /\ cs[n + 3].api = "git.createCommit"
            /\ cs[n + 3].parents = << >>
            /\ cs[n + 4].api = "git.updateRef"
            /\ \E x \in remote.repos :
                 x.name = rq[r].name /\ res[r].body.url = x.html_url

C1_Witness ==
    \E r \in Slots :
      /\ rq[r].route = "repositories" /\ res[r].status = 201
      /\ rq[r].template = <<"t">> /\ Cardinality(BlobCalls(r)) = 2

\* C2: once a step of createRepository has failed, the request has issued
\* no call of a later step, its handler is over and its answer is an error.
C2_FailureAbortsLaterSteps ==
    \A r \in Slots :
      RepoFailed(r) =>
        /\ \A i \in 1..Len(calls[r]) :
             ApiStep(calls[r][i].api) <= StepNumber(failed[r].step)
        /\ pc[r] = "done"
        /\ res[r].status >= 400

C2_Witness ==
    \E r \in Slots :
      /\ RepoFailed(r) /\ failed[r].step = "CreateTree"
      /\ pc[r] = "done" /\ "git.createTree" \in Apis(r)

\* C3: while createRepository waits for its blobs every blob-create call is
\* already issued; a tree-create call is there only when no blob-create call
\* is pending, none failed and each one's blob exists on the remote host;
\* after a failed blob creation there is no tree, commit or ref call.
C3_BlobJoin ==
    \A r \in Slots :
      rq[r].route = "repositories" =>
        /\ pc[r] = "blobs" => Cardinality(BlobCalls(r)) = Len(loc[r].files)
        /\ "git.createTree" \in Apis(r) =>
             /\ loc[r].pending = {}
             /\ failed[r].step # "CreateBlobs"
             /\ Cardinality(BlobCalls(r)) = Len(loc[r].files)
             /\ \A i \in BlobCalls(r) :
                  [repo |-> calls[r][i].repo, sha |-> BlobSha(calls[r][i].content)]
                    \in remote.blobs
        /\ failed[r].step = "CreateBlobs" =>
             Apis(r) \cap {"git.createTree", "git.createCommit", "git.updateRef"} = {}

C3_Witness ==
    \E r \in Slots :
      /\ rq[r].route = "repositories" /\ pc[r] = "createTree"
      /\ Cardinality(BlobCalls(r)) = 2

\* The protocol step an error body names, "" when it names none.
StepNamed(body) == IF "step" \in DOMAIN body THEN body.step ELSE ""

CreationApis ==
    {"repos.createForAuthenticatedUser", "git.createBlob", "git.createTree",
     "git.createCommit", "git.updateRef"}

\* C5: after a failed step createRepository has issued nothing but creation
\* calls (no delete, no undo), and what its earlier steps created is still
\* on the remote host: the repository, the blobs, the tree and the commit.
C5_NoCompensation ==
    \A r \in Slots :
      RepoFailed(r) =>
        /\ Apis(r) \subseteq CreationApis
        /\ failed[r].step # "CreateRepo" =>
             \E x \in remote.repos : x.name = loc[r].repo.name
        /\ \A i \in 1..Len(loc[r].blobs) :
             loc[r].blobs[i] # NoSha =>
               [repo |-> loc[r].repo.name, sha |-> loc[r].blobs[i].sha] \in remote.blobs
        /\ loc[r].tree # NoSha =>
             [repo |-> loc[r].repo.name, sha |-> loc[r].tree] \in remote.trees
        /\ loc[r].commit # NoSha =>
             [repo |-> loc[r].repo.name, sha |-> loc[r].commit] \in remote.commits

C5_Witness ==
    \E r \in Slots :
      /\ RepoFailed(r) /\ failed[r].step = "UpdateRef"
      /\ loc[r].commit # NoSha /\ loc[r].tree # NoSha
      /\ \E x \in remote.repos : x.name = loc[r].repo.name

\* A name with a path separator or a parent-directory segment (a name with
\* such a segment and no separator is the segment itself).
HasTraversal(name) ==
    \/ \E i \in 1..Len(name) : name[i] = "/"
    \/ name = <<".", ".">>

\* C6 as claimed: a POST /projects or POST /repositories whose name has a
\* path separator or a parent-directory segment writes no archive entry and
\* makes no remote call, and is answered 400 (by /repositories, when the
\* session has a token).
C6_TraversalNameRejected ==
    \A r \in Slots :
      (rq[r].route \in {"projects", "repositories"} /\ HasTraversal(rq[r].name)) =>
        /\ loc[r].archive.entries = << >>
        /\ ~loc[r].archive.open
        /\ calls[r] = << >>
        /\ (pc[r] = "done" /\ (rq[r].route = "projects" \/ rq[r].token # NULL))
             => res[r].status = 400

\* A name or template id that differs from its own last path segment.
NotOwnBasename(q) == Basename(q.name) # q.name \/ Basename(q.template) # q.template

C8_UnauthenticatedRejected ==
    \A r \in Slots :
      (rq[r].route \in GuardedRoutes /\ rq[r].token = NULL) =>
        /\ pc[r] = "done"
        /\ res[r].status = 401
        /\ res[r].body = ErrorBody("Unauthorized")
        /\ calls[r] = << >>

C8_Witness ==
    \E r \in Slots :
      /\ rq[r].route = "status" /\ rq[r].token = NULL
      /\ res[r].status = 401 /\ calls[r] = << >>

C10_EmptyRunListNotFound ==
    \A r \in Slots :
      (rq[r].route = "status" /\ pc[r] = "done" /\ rq[r].token # NULL
         /\ failed[r] = NoFailure /\ loc[r].runs = << >>) =>
        /\ res[r].status = 200
        /\ res[r].body = [status |-> "not_found"]
        /\ DOMAIN res[r].body = {"status"}

C10_Witness ==
    \E r \in Slots :
      /\ rq[r].route = "status" /\ pc[r] = "done" /\ failed[r] = NoFailure
      /\ loc[r].runs = << >> /\ res[r].status = 200


\* The positions of a run list that hold a run created latest.
MostRecent(runs) ==
    {i \in 1..Len(runs) :
       \A j \in 1..Len(runs) : runs[j].created_at <= runs[i].created_at}

StatusAnswered(r) ==
    /\ rq[r].route = "status" /\ pc[r] = "done" /\ rq[r].token # NULL
    /\ failed[r] = NoFailure /\ loc[r].runs # << >>

\* C11, as stated: the status route answers with the status and conclusion
\* of the run created most recently among the runs the remote host
\* returned, in whatever order the host lists them.
C11_LatestByCreationTime ==
    \A r \in Slots :
      StatusAnswered(r) =>
        \E i \in MostRecent(loc[r].runs) :
          res[r].body = [status |-> loc[r].runs[i].status,
                         conclusion |-> loc[r].runs[i].conclusion]

\* The host lists the runs in descending order of creation time.
NewestFirst(runs) ==
    \A i \in 1..(Len(runs) - 1) : runs[i].created_at >= runs[i + 1].created_at

\* C11, amended: the status route answers 200 with the status and
\* conclusion of the run the remote host listed first, whatever the
\* creation times of the runs behind it; that is the run created most
\* recently when the host lists the runs newest first.
C11_FirstListedRun ==
    \A r \in Slots :
      StatusAnswered(r) =>
        /\ res[r].status = 200
        /\ res[r].body = [status |-> loc[r].runs[1].status,
                          conclusion |-> loc[r].runs[1].conclusion]
        /\ NewestFirst(loc[r].runs) => 1 \in MostRecent(loc[r].runs)

C11_Witness ==
    \E r \in Slots :
      /\ StatusAnswered(r)
      /\ Len(loc[r].runs) = 2
      /\ 1 \notin MostRecent(loc[r].runs)
      /\ res[r].body.status = "completed"


\* A request is taken in and its handler runs past `await getTemplates()`
\* within the same step: the call returned without suspending.
AnsweredFromCache(r) ==
    /\ pc[r] = "idle" /\ pc'[r] # "idle"
    /\ rq'[r].route \in {"templates", "projects", "repositories"}
    /\ pc'[r] # "catalog"
    /\ Required(rq'[r]) = "" /\ (rq'[r].route = "repositories" => rq'[r].token # NULL)

Loadable(d) == SelectSeq(d.folders, LAMBDA f : d.manifest[f].ok)

FoldersOf(templates) == [i \in 1..Len(templates) |-> templates[i].folder]

\* C13: a folder whose manifest is missing or does not parse is left out
\* of the catalog and does not make getTemplates fail: a load that got its
\* folder list never throws, and the catalog it assigns lists every folder
\* with a valid manifest, in readdir order, and no other.
C13_BrokenManifestSkipped ==
    [][/\ templatesCache' # templatesCache =>
            /\ templatesCache'.filled
            /\ FoldersOf(templatesCache'.templates) = Loadable(disk)
       /\ gt[Main].pc = "manifest" => server' # "exited"
       /\ \A r \in Slots : gt[r].pc = "manifest" =>
            (pc'[r] # "hung" /\ failed'[r] = NoFailure)]_vars

C13_Witness ==
    /\ templatesCache.filled
    /\ disk = DiskInit
    /\ \E i \in 1..Len(disk.folders) :
         /\ ~disk.manifest[disk.folders[i]].ok
         /\ disk.folders[i] \notin Range(FoldersOf(templatesCache.templates))
    /\ Len(templatesCache.templates) = 4


\* The last file-system read completed for a request is a failed readdir
\* of the templates root.
RootUnreadable(ops) ==
    /\ ops # << >>
    /\ Last(ops) = Read("getTemplates", "readdir", <<"templates">>, FALSE)

\* C14: a getTemplates call whose readdir of the templates root fails
\* throws into its caller and assigns no catalog; a server started through
\* startServer exits then and never listens, is listening only with the
\* catalog loaded, and takes in no request before it listens.
C14_NoCatalogNoListening ==
    [][/\ \A r \in Slots :
            (gt[r].pc = "readdir" /\ RootUnreadable(fsops'[r])) =>
              /\ pc'[r] = "hung" /\ res'[r] = NoResponse
              /\ templatesCache' = templatesCache
       /\ (server = "starting" /\ gt[Main].pc = "readdir" /\ gt'[Main].pc = "idle"
             /\ ~templatesCache'.filled) => server' = "exited"
       /\ server = "exited" => server' = "exited"
       /\ server' = "listening" => (server # "imported" /\ templatesCache'.filled)
       /\ server' \in {"starting", "exited"} => \A r \in Slots : pc'[r] = "idle"]_vars

C14_Witness ==
    /\ server = "exited"
    /\ ~templatesCache.filled
    /\ nreq = 0


\* templates.find(t => t.id === id): the first catalog entry with the id.
Found(templates, id) ==
    templates[CHOOSE i \in 1..Len(templates) :
                /\ templates[i].id = id
                /\ \A j \in 1..(i - 1) : templates[j].id # id]

\* The request got past every check of its handler and its template was
\* looked up in the cached catalog.
Accepted(r) ==
    /\ rq[r].route \in {"projects", "repositories"}
    /\ pc[r] \notin {"idle", "catalog", "hung"}
    /\ res[r].status \notin {400, 401}
    /\ templatesCache.filled
    /\ Find(templatesCache.templates, rq[r].template)

\* C15: every template of the catalog has for id the name of the folder it
\* was loaded from, whatever its manifest holds, so the template a request
\* is accepted for was loaded from the folder the request's templateId
\* names.
C15_IdIsFolderName ==
    /\ \A i \in 1..Len(templatesCache.templates) :
         templatesCache.templates[i].id = templatesCache.templates[i].folder
    /\ \A r \in Slots :
         Accepted(r) =>
           Found(templatesCache.templates, rq[r].template).folder = rq[r].template


Renderings(r) == Range(loc[r].archive.entries) \cup Range(loc[r].files)

\* The text of the template file a rendering was made from.
SourceOf(r, e) ==
    LET files == TreeFiles(disk.tree[rq[r].template], << >>)
    IN  files[CHOOSE i \in 1..Len(files) : files[i].path = e.path].data

\* C17: a template file that is nothing but the projectName placeholder is
\* rendered to exactly the name of the request, whatever the validated name
\* and whatever the config.
C17_NameRenderedVerbatim ==
    \A r \in Slots :
      rq[r].route \in {"projects", "repositories"} =>
        \A e \in Renderings(r) :
          SourceOf(r, e) = << Var("projectName") >> => e.content = rq[r].name


\* The upsert calls a request has issued, in order.
UpsertCalls(r) ==
    SelectSeq(calls[r], LAMBDA c : c.api = "actions.createOrUpdateRepoSecret")

\* C18: a secrets request answered 204 has issued, after the public-key
\* call, exactly one upsert call per element of its list, under that
\* element's name and in list order, and no other call; none for the empty
\* list, which is answered 204 all the same once the key is fetched.
C18_OneUpsertPerSecret ==
    \A r \in Slots :
      (rq[r].route = "secrets" /\ pc[r] = "done" /\ rq[r].token # NULL) =>
        /\ res[r].status = 204 =>
             /\ Len(UpsertCalls(r)) = Len(rq[r].secrets)
             /\ \A i \in 1..Len(rq[r].secrets) :
                  UpsertCalls(r)[i].secret_name = rq[r].secrets[i].name
             /\ Len(calls[r]) = 1 + Len(rq[r].secrets)
        /\ failed[r] = NoFailure => res[r].status = 204

C18_Witness ==
    \E r \in Slots :
      /\ rq[r].route = "secrets" /\ pc[r] = "done" /\ res[r].status = 204
      /\ Len(rq[r].secrets) = 2
      /\ Len(UpsertCalls(r)) = 2
      /\ UpsertCalls(r)[2].secret_name = "B"


\* The secret values a request carries in the clear.
Plain(r) == {rq[r].secrets[i].value : i \in 1..Len(rq[r].secrets)}

\* The arguments of a remote call that are plain strings.
StringArgs(c) ==
    {c.auth, c.owner, c.repo}
    \cup (IF c.api = "actions.createOrUpdateRepoSecret"
          THEN {c.secret_name, c.key_id} ELSE {})

\* What the catch block of the secrets route writes to the console: the
\* repository and the error thrown, which carries the request that failed.
SecretsLog(r) ==
    IF rq[r].route = "secrets" /\ failed[r] # NoFailure
    THEN << [text |-> "Failed to create secrets for repository",
             owner |-> ParamOwner, repo |-> ParamRepo,
             error |-> [kind |-> failed[r].kind, request |-> Last(calls[r])]] >>
    ELSE << >>

\* C19: every upsert call of a secrets request follows the request's own
\* public-key call for the same repository and carries the element's value
\* sealed with the key that call fetched, under that key's id; no string
\* argument of any call of the request and no logged line holds a value
\* in the clear.
C19_OnlySealedValuesLeave ==
    \A r \in Slots :
      rq[r].route = "secrets" =>
        /\ \A i \in 1..Len(UpsertCalls(r)) :
             LET c == UpsertCalls(r)[i]
             IN  /\ calls[r][1].api = "actions.getRepoPublicKey"
                 /\ <<c.owner, c.repo>> = <<calls[r][1].owner, calls[r][1].repo>>
                 /\ loc[r].key.key # ""
                 /\ c.encrypted_value =
                      Base64(Seal(rq[r].secrets[i].value, loc[r].key.key))
                 /\ c.key_id = loc[r].key.key_id
        /\ \A i \in 1..Len(calls[r]) : StringArgs(calls[r][i]) \cap Plain(r) = {}
        /\ \A i \in 1..Len(SecretsLog(r)) :
             /\ {SecretsLog(r)[i].owner, SecretsLog(r)[i].repo} \cap Plain(r) = {}
             /\ StringArgs(SecretsLog(r)[i].error.request) \cap Plain(r) = {}

C19_Witness ==
    \E r \in Slots :
      /\ rq[r].route = "secrets" /\ pc[r] = "done"
      /\ failed[r].step = "UpsertSecret"
      /\ Len(UpsertCalls(r)) = 2
      /\ UpsertCalls(r)[2].encrypted_value = Base64(Seal("y", "repo-key"))
      /\ SecretsLog(r) # << >>


\* The remote host holds the secret an upsert call submitted.
Submitted(c) ==
    [name |-> c.secret_name, value |-> c.encrypted_value] \in remote.secrets

\* C20: the secrets of a request are submitted one at a time in list
\* order: each upsert is issued only when all before it have succeeded.
\* When the k-th upsert fails the first k-1 secrets stay on the remote
\* host (no call undoes them), no upsert follows the k-th, and the request
\* is answered with the route's error.
C20_SequentialNoUndo ==
    \A r \in Slots :
      rq[r].route = "secrets" =>
        LET ups == UpsertCalls(r)
            k   == Len(ups)
        IN  /\ k <= Len(rq[r].secrets)
            /\ \A i \in 1..k : ups[i].secret_name = rq[r].secrets[i].name
            /\ \A i \in 1..(k - 1) : Submitted(ups[i])
            /\ Len(calls[r]) <= 1 + k
            /\ failed[r].step = "UpsertSecret" =>
                 /\ pc[r] = "done" /\ k >= 1
                 /\ <<res[r].status, res[r].body>>
                      = <<500, ErrorBody("Failed to create secrets")>>

C20_Witness ==
    \E r \in Slots :
      /\ rq[r].route = "secrets" /\ failed[r].step = "UpsertSecret"
      /\ Len(rq[r].secrets) = 2 /\ Len(UpsertCalls(r)) = 2
      /\ Submitted(UpsertCalls(r)[1])
      /\ ~Submitted(UpsertCalls(r)[2])
      /\ res[r].status = 500


\* C21: a POST /projects request whose tree walk threw (a read or a
\* rendering failed) after its archive was opened never has the archive
\* finalized, whatever was appended before the failure.
C21_FailedArchiveNotFinalized ==
    \A r \in Slots :
      (rq[r].route = "projects" /\ failed[r].step = "RenderTree") =>
        /\ loc[r].archive.open
        /\ ~loc[r].archive.finalized
        /\ pc[r] = "done"

C21_Witness ==
    \E r \in Slots :
      /\ rq[r].route = "projects" /\ failed[r].step = "RenderTree"
      /\ loc[r].archive.open /\ ~loc[r].archive.finalized
      /\ Len(loc[r].archive.entries) = 1
      /\ res[r].headersSent


\* C22: a POST /projects request whose handler has run to its end, after a
\* failure as much as after a success, has its response terminated (the
\* stream ended or the connection closed), also when bytes of the archive
\* had gone out before the failure.
C22_ArchiveResponseTerminated ==
    \A r \in Slots :
      (rq[r].route = "projects" /\ pc[r] = "done") => res[r].ended


\* C23: a POST /repositories request carries the answer 201 with
\* {url, owner, repo} of the repository it created only once its ref-update
\* call has succeeded: its handler is at its end, no step failed, no call
\* is in flight, and the remote host holds the branch the call set, at the
\* commit the request created.
C23_SuccessAfterRefUpdate ==
    \A r \in Slots :
      (rq[r].route = "repositories" /\ res[r].status = 201) =>
        /\ pc[r] = "done"
        /\ failed[r] = NoFailure
        /\ loc[r].pending = {}
        /\ Last(calls[r]).api = "git.updateRef"
        /\ [repo |-> Last(calls[r]).repo, ref |-> Last(calls[r]).ref,
            sha |-> loc[r].commit] \in remote.refs
        /\ res[r].body = [url |-> loc[r].repo.html_url, owner |-> loc[r].repo.owner,
                          repo |-> loc[r].repo.name]
        /\ loc[r].repo \in remote.repos

C23_Witness ==
    \E r \in Slots :
      /\ rq[r].route = "repositories" /\ res[r].status = 201
      /\ loc[r].repo.default_branch = "master"
      /\ \E x \in remote.refs : x.sha = loc[r].commit


\* Nothing of an archive exists for the request: no attachment header, no
\* archiver, no entry, no response byte, and no read below a template.
NoArchiveStarted(r) ==
    /\ res[r].attachment = << >>
    /\ ~loc[r].archive.open
    /\ loc[r].archive.entries = << >>
    /\ res[r].status # 200
    /\ \A i \in 1..Len(fsops[r]) : fsops[r][i].by # "processDirectory"

\* The body has no name or no template.
MissingField(q) == q.name = << >> \/ q.template = << >>

\* C24: a POST /projects request with no name or no template is answered
\* 400 with the field's message before anything is read; one whose
\* template id the catalog does not list is answered 400 'Invalid template
\* specified' once the catalog is there; for none of them an archive is
\* started.
C24_InvalidRequestNoArchive ==
    \A r \in Slots :
      rq[r].route = "projects" =>
        /\ MissingField(rq[r]) =>
             /\ pc[r] = "done"
             /\ res[r].status = 400
             /\ res[r].body =
                  ErrorBody(IF rq[r].name = << >> THEN "Project name is required"
                            ELSE "Template is required")
             /\ fsops[r] = << >>
             /\ NoArchiveStarted(r)
        /\ (~MissingField(rq[r]) /\ ~Find(templatesCache.templates, rq[r].template)) =>
             /\ pc[r] = "done" =>
                  <<res[r].status, res[r].body>>
                    = <<400, ErrorBody("Invalid template specified")>>
             /\ NoArchiveStarted(r)

C24_Witness ==
    \E r \in Slots :
      /\ rq[r].route = "projects" /\ pc[r] = "done"
      /\ rq[r].name = <<"a">> /\ rq[r].template = <<"w">>
      /\ rq[r].template \in DOMAIN disk.tree
      /\ res[r].status = 400
      /\ NoArchiveStarted(r)


\* A status request of the poll has come back with a completed run.
ReturnedCompleted(i) ==
    /\ dash.polls[i].stage = "arrived"
    /\ Ok(dash.polls[i].res)
    /\ dash.polls[i].res.body.status = "completed"

\* C25: once a status request of the dashboard's poll has returned a
\* completed run, the dashboard shows that run's conclusion and its timer
\* is cleared, so that no further status request is sent; until then it
\* shows the status last returned.
C25_PollStopsOnCompleted ==
    \A i \in 1..Len(dash.polls) :
      ReturnedCompleted(i) =>
        /\ ~dash.interval
        /\ dash.message = CompletedMessage(dash.polls[i].res.body.conclusion)


\* The text of a placeholder as it stands in a template file.
Placeholder(k) == << "{{", k, "}}" >>

\* A rendering that leaves a placeholder verbatim when the context lacks
\* its key.
RECURSIVE RenderKeeping(_, _)
RenderKeeping(data, ctx) ==
    IF data = <<>> THEN <<>>
    ELSE LET tok == Head(data)
             out == IF tok.t = "lit" THEN tok.s
                    ELSE IF Has(ctx, tok.k) THEN Escape(Lookup(ctx, tok.k))
                    ELSE Placeholder(tok.k)
         IN  out \o RenderKeeping(Tail(data), ctx)

\* C26: a file with a placeholder whose key is neither in the config nor
\* the injected projectName is not rendered at all (the request fails), or
\* is rendered with that placeholder left verbatim; no rendering has the
\* placeholder replaced by other text, the empty string included.
C26_UnresolvedPlaceholderKept ==
    \A r \in Slots :
      rq[r].route \in {"projects", "repositories"} =>
        \A e \in Renderings(r) :
          e.content = RenderKeeping(SourceOf(r, e), Context(rq[r].name, rq[r].config))


\* The (relative path, rendered content) pairs of a request's template
\* tree under the request's name and config; a file that does not compile
\* has no rendering.
ExpectedPairs(q, d) ==
    {[path |-> f.path, content |-> Render(f.data, Context(q.name, q.config))] :
       f \in {x \in Range(TreeFiles(d.tree[q.template], << >>)) : Compiles(x.data)}}

\* The tree walk of a POST /repositories request is over.
WalkOver(r) ==
    \/ pc[r] \in {"blobs", "createTree", "createCommit", "updateRef"}
    \/ failed[r].step \in {"CreateBlobs", "CreateTree", "CreateCommit", "UpdateRef"}
    \/ res[r].status = 201

RECURSIVE TreeLinks(_, _)
TreeLinks(entries, prefix) ==
    IF entries = << >> THEN {}
    ELSE LET e == Head(entries)
         IN  (IF e.dir THEN TreeLinks(e.entries, Append(prefix, e.name))
              ELSE IF "link" \in DOMAIN e THEN {Append(prefix, e.name)}
              ELSE {})
             \cup TreeLinks(Tail(entries), prefix)

\* C28: the tree walk does not follow a symbolic link: no archive entry
\* and no staged file of a request is made from what a link of the
\* template points to.
C28_LinksNotFollowed ==
    \A r \in Slots :
      rq[r].route \in {"projects", "repositories"} =>
        \A e \in Renderings(r) :
          e.path \notin TreeLinks(disk.tree[rq[r].template], << >>)


\* A getTemplates call leaves its loop over the folders in this step and
\* executes `templatesCache = templates`.
Assigns(c) == gt[c].pc = "manifest" /\ gt'[c].pc = "idle"

\* C29: the template cache is written at most once: once it is assigned,
\* no getTemplates call assigns it again, whichever calls were started
\* while it was empty, and its value stays what it is.
C29_CacheWrittenOnce ==
    [][templatesCache.filled =>
         /\ \A c \in Ctx : ~Assigns(c)
         /\ templatesCache' = templatesCache]_vars


\* The calls of a request with a given api.
CallsOf(r, api) == {calls[r][i] : i \in {j \in 1..Len(calls[r]) : calls[r][j].api = api}}

\* C30: whatever another request in flight is doing, every call of a POST
\* /repositories request carries the request's own token, the calls after
\* the first are addressed to the owner and the name of the repository the
\* request created, the staged files and the blobs are renderings of the
\* request's own template under its own name and config, the tree call
\* lists the request's own blobs, and the commit and ref calls carry the
\* request's own tree and commit.
C30_RequestsShareNothing ==
    \A r \in Slots :
      rq[r].route = "repositories" =>
        LET own == ExpectedPairs(rq[r], disk)
        IN  /\ \A i \in 1..Len(calls[r]) :
                 /\ calls[r][i].auth = rq[r].token
                 /\ i = 1 => calls[r][i] = CreateRepoCall(rq[r])
                 /\ i > 1 => /\ calls[r][i].owner = loc[r].repo.owner
                             /\ calls[r][i].repo = loc[r].repo.name
                             /\ calls[r][i].repo = Basename(rq[r].name)
            /\ Range(loc[r].files) \subseteq own
            /\ \A c \in CallsOf(r, "git.createBlob") :
                 \E e \in own : c.content = Base64(e.content)
            /\ \A c \in CallsOf(r, "git.createTree") :
                 /\ c.tree = loc[r].blobs
                 /\ \A i \in 1..Len(c.tree) :
                      \E e \in own : /\ c.tree[i].path = e.path
                                     /\ c.tree[i].sha = BlobSha(Base64(e.content))
            /\ \A c \in CallsOf(r, "git.createCommit") :
                 \E t \in CallsOf(r, "git.createTree") : c.tree = TreeSha(t.tree)
            /\ \A c \in CallsOf(r, "git.updateRef") :
                 /\ c.sha = loc[r].commit
                 /\ \E m \in CallsOf(r, "git.createCommit") :
                      c.sha = CommitSha([tree |-> m.tree, parents |-> m.parents,
                                         message |-> m.message])

\* Two requests with different names and configs, both through to 201,
\* after their blob calls were in flight at the same time.
C30_Witness ==
    /\ \A r \in Slots : rq[r].route = "repositories" /\ res[r].status = 201
    /\ rq["r1"].name # rq["r2"].name
    /\ {c.content : c \in CallsOf("r1", "git.createBlob")}
         # {c.content : c \in CallsOf("r2", "git.createBlob")}
    /\ Cardinality(remote.repos) = 2


\* C31: each step of createRepository consumes what the step before it
\* returned: the commit call carries the tree id the tree call returned,
\* and the ref call names the default branch the repository-create call
\* reported and carries the commit id the commit call returned; these
\* objects exist on the remote host.
C31_StepsChainOutputs ==
    \A r \in Slots :
      rq[r].route = "repositories" =>
        /\ \A c \in CallsOf(r, "git.createCommit") :
             /\ c.tree = loc[r].tree
             /\ \E t \in CallsOf(r, "git.createTree") : c.tree = TreeSha(t.tree)
             /\ [repo |-> loc[r].repo.name, sha |-> c.tree] \in remote.trees
        /\ \A c \in CallsOf(r, "git.updateRef") :
             /\ c.ref = <<"heads", loc[r].repo.default_branch>>
             /\ \E x \in remote.repos :
                  x.name = c.repo /\ x.default_branch = loc[r].repo.default_branch
             /\ c.sha = loc[r].commit
             /\ \E m \in CallsOf(r, "git.createCommit") :
                  c.sha = CommitSha([tree |-> m.tree, parents |-> m.parents,
                                     message |-> m.message])
             /\ [repo |-> loc[r].repo.name, sha |-> c.sha] \in remote.commits

C31_Witness ==
    \E r \in Slots :
      /\ rq[r].route = "repositories" /\ pc[r] = "updateRef"
      /\ loc[r].repo.default_branch = "master"
      /\ Last(calls[r]).ref = <<"heads", "master">>
      /\ Len(loc[r].files) = 2


\* The handler of a POST /projects request calls archive.finalize() in
\* this step.
Finalizes(r) ==
    /\ rq'[r].route = "projects"
    /\ ~loc[r].archive.finalized /\ loc'[r].archive.finalized

\* C32: POST /projects finalizes its archive only when its walk is over and
\* every file of the template tree has its entry; once the archive is
\* finalized the handler is at its end: no entry is appended, nothing is
\* read and finalize is not called again for the request.
C32_FinalizedOnceAfterAllEntries ==
    [][\A r \in Slots :
         /\ Finalizes(r) =>
              /\ loc'[r].walk = << >>
              /\ Len(loc'[r].archive.entries)
                   = Len(TreeFiles(disk.tree[rq'[r].template], << >>))
              /\ pc'[r] = "done"
         /\ (loc[r].archive.finalized /\ pc'[r] # "idle") =>
              /\ pc[r] = "done" /\ pc'[r] = "done"
              /\ loc'[r] = loc[r]
              /\ fsops'[r] = fsops[r]]_vars

C32_Witness ==
    \E r \in Slots :
      /\ rq[r].route = "projects" /\ loc[r].archive.finalized
      /\ rq[r].template = <<"t">>
      /\ Len(loc[r].archive.entries) = 2
      /\ loc[r].walk = << >> /\ pc[r] = "done"


\* C34: the tree a POST /repositories request submits has exactly one
\* entry per staged file, and the entry of a file pairs the file's path
\* with the id of the blob created from that file's content, with mode
\* 100644 and type blob, in whatever order the blob calls resolved; each
\* such blob exists on the remote host.
C34_TreePairsPathWithOwnBlob ==
    \A r \in Slots :
      rq[r].route = "repositories" =>
        \A c \in CallsOf(r, "git.createTree") :
          /\ Len(c.tree) = Len(loc[r].files)
          /\ \A i \in 1..Len(loc[r].files) :
               /\ c.tree[i] = [path |-> loc[r].files[i].path,
                               sha |-> BlobSha(Base64(loc[r].files[i].content)),
                               mode |-> "100644", type |-> "blob"]
               /\ [repo |-> c.repo, sha |-> c.tree[i].sha] \in remote.blobs
          /\ \A i, j \in 1..Len(c.tree) : c.tree[i].path = c.tree[j].path => i = j

\* The tree is submitted after the second blob call resolved before the
\* first.
C34_Witness ==
    \E r \in Slots :
      /\ rq[r].route = "repositories" /\ pc[r] = "createTree"
      /\ loc[r].order = <<2, 1>>
      /\ Len(Last(calls[r]).tree) = 2
      /\ Last(calls[r]).tree[1].path # Last(calls[r]).tree[2].path
      /\ Last(calls[r]).tree[1].sha # Last(calls[r]).tree[2].sha


\* The getTemplates call of a context ends in this step by throwing into
\* its caller.
Throws(c) ==
    /\ gt[c].pc # "idle" /\ gt'[c].pc = "idle"
    /\ IF c = Main THEN server = "starting" /\ server' = "exited"
       ELSE pc'[c] = "hung"

\* C40: a getTemplates call that throws leaves the cache as it was (so does
\* a call that ends at its readdir of a root that has folders, which can
\* only have thrown), and the
\* cache never holds anything but a whole catalog of a templates root; a
\* call started while the cache is unfilled reads the templates root
\* again, and whatever it assigns is a whole catalog.
C40_FailureLeavesCacheUnfilled ==
    [][/\ \A c \in Ctx : Throws(c) => templatesCache' = templatesCache
       /\ \A c \in Ctx :
            (gt[c].pc = "readdir" /\ gt'[c].pc = "idle" /\ disk.folders # << >>)
              => templatesCache' = templatesCache
       /\ \A c \in Ctx :
            (gt[c].pc = "idle" /\ gt'[c].pc # "idle") =>
              (~templatesCache.filled /\ gt'[c].pc = "readdir")
       /\ \A r \in Slots :
            (pc[r] = "idle" /\ pc'[r] = "catalog") => gt'[r].pc = "readdir"
       /\ templatesCache'.filled =>
            templatesCache'.templates \in {CatalogOf(d) : d \in Disks}]_vars

\* A request's getTemplates call threw, and a call made after that has
\* filled the cache with the catalog of the templates root.
C40_Witness ==
    /\ \E r \in Slots :
         /\ pc[r] = "hung" /\ failed[r] = Fail("GetTemplates", "failure")
         /\ RootUnreadable(fsops[r])
    /\ templatesCache = [filled |-> TRUE, templates |-> CatalogOf(DiskInit)]


InvalidTemplateName ==
    ErrorBody("Invalid template name. Path traversal characters are not allowed.")

\* C39: no POST /projects or POST /repositories request is answered
\* 'Invalid template name': a template id the catalog lists is its own
\* last path segment, so an id with traversal characters is answered
\* 'Invalid template specified' at the lookup.
C39_TemplateNameCheckUnreachable ==
    /\ \A i \in 1..Len(templatesCache.templates) :
         Basename(templatesCache.templates[i].id) = templatesCache.templates[i].id
    /\ \A r \in Slots :
         rq[r].route \in {"projects", "repositories"} =>
           /\ res[r].body # InvalidTemplateName
           /\ (pc[r] = "done" /\ res[r].status = 400 /\ Required(rq[r]) = ""
                 /\ Basename(rq[r].template) # rq[r].template)
                => res[r].body = ErrorBody("Invalid template specified")


\* C37: once the message of the pipeline is the completed one it stays the
\* completed one, with the same conclusion, whatever responses of earlier
\* status requests arrive afterwards.
C37_CompletedMessageSticks ==
    [][dash.message.kind = "completed" => dash'.message = dash.message]_vars


\* C33: once the response of a POST /projects request is closed (the client
\* has gone) the handler stops: no file is read for the request and no
\* entry is appended to its archive any more.
C33_StopsWhenDestinationGone ==
    [][\A r \in Slots :
         (rq[r].route = "projects" /\ res[r].closed /\ pc'[r] # "idle") =>
           /\ fsops'[r] = fsops[r]
           /\ loc'[r].archive.entries = loc[r].archive.entries]_vars


\* A POST /repositories request of a session with no token is taken in in
\* this step.
UnauthenticatedCreate(r) ==
    /\ pc[r] = "idle" /\ pc'[r] # "idle"
    /\ rq'[r].route = "repositories" /\ rq'[r].token = NULL

\* C38: a POST /repositories request of a session with no token is
\* answered 401 Unauthorized whatever its body, before anything is
\* validated, read or called, and the limiter's count stays what it was
\* (a request the limiter is reached by raises it).
C38_AuthBeforeLimiterAndValidation ==
    [][/\ \A r \in Slots :
            UnauthenticatedCreate(r) =>
              /\ pc'[r] = "done"
              /\ res'[r].status = 401
              /\ res'[r].body = ErrorBody("Unauthorized")
              /\ hits' = hits
              /\ calls'[r] = << >> /\ fsops'[r] = << >> /\ gt'[r].pc = "idle"
       /\ \A r \in Slots :
            (pc[r] = "idle" /\ pc'[r] # "idle" /\ rq'[r].route = "repositories"
               /\ rq'[r].token # NULL) => hits' = hits + 1]_vars

\* A request with no name has its 401; the limiter has counted no request.
C38_Witness ==
    \E r \in Slots :
      /\ rq[r].route = "repositories" /\ rq[r].token = NULL
      /\ rq[r].name = << >>
      /\ res[r].status = 401
      /\ nreq = 1 /\ hits = 0


\* C35: the branch a workflow of a repository is dispatched on is the
\* branch createRepository has set for that repository, whatever name the
\* remote host gave the default branch.
C35_DispatchOnInitializedBranch ==
    \A d \in remote.dispatches :
      \A x \in remote.refs :
        (x.repo = d.repo) => x.ref = <<"heads", d.ref>>

\* C36: handleSecretsSubmit sends its dispatch request and sets the timer
\* of the poll only when the secrets request was answered with a success
\* status.
C36_DispatchOnlyAfterSecretsSucceeded ==
    /\ rq[Page].route = "dispatch" => Ok([status |-> dash.secrets])
    /\ dash.step \in {"dispatch", "polling"} => Ok([status |-> dash.secrets])
    /\ dash.interval => Ok([status |-> dash.secrets])

====
